---- MODULE Spec2Model ----
(***************************************************************************)
(* The Overmind terminal network (TerminalNetworkV2): the per-tick         *)
(* classification of every (colony, resource) pair into a tier, the        *)
(* request/provide matching pipeline of run(), the override calls          *)
(* requestResource/exportResource, and the persistent statistics.          *)
(*                                                                         *)
(* JavaScript dictionaries are functions whose DOMAIN is the set of keys   *)
(* present; {} is <<>>.  An optional number (surplus) is a sequence of     *)
(* length 0 or 1.  Amounts are integers; the one float the code can        *)
(* produce that is not a number, 0/0, is the value NaN below.              *)
(***************************************************************************)
EXTENDS Integers, Sequences, FiniteSets, TLC

VARIABLES
    world,              \* the game objects the network reads: colonies, stores, market
    termSent,           \* terminals that issued a successful send this tick (not ready)
    termReceived,       \* terminals that were sent something this tick (hasReceived)
    colonies,           \* this.colonies
    colonyThresholds,   \* this.colonyThresholds
    _energyThresholds,  \* this._energyThresholds: <<>> or <<thresholds>>
    colonyStates,       \* this.colonyStates
    activeProviders,    \* this.activeProviders
    passiveProviders,   \* this.passiveProviders
    equilibriumNodes,   \* this.equilibriumNodes
    passiveRequestors,  \* this.passiveRequestors
    activeRequestors,   \* this.activeRequestors
    assets,             \* this.assets
    notifications,      \* this.notifications
    terminalOverload,   \* this.terminalOverload: the set of keys set to true
    stats,              \* this.stats (Memory.stats.persistent.terminalNetwork)
    stage,              \* where the tick loop stands
    pc,                 \* position of run() inside its three phases
    trace,              \* what run() has done this tick: visits, sends, market calls
    lastCall,           \* the last public call made and how it ended
    nCalls,             \* override calls made so far
    tick,               \* game ticks started so far
    ran,                \* run() was called in the current game tick
    built               \* Colony objects constructed so far

netVars == <<colonies, colonyThresholds, _energyThresholds, colonyStates,
             activeProviders, passiveProviders, equilibriumNodes,
             passiveRequestors, activeRequestors, assets, notifications,
             terminalOverload, stats>>
tierVars == <<activeProviders, passiveProviders, equilibriumNodes,
              passiveRequestors, activeRequestors>>
envVars == <<world, termSent, termReceived>>
vars == <<world, termSent, termReceived, colonies, colonyThresholds,
          _energyThresholds, colonyStates, activeProviders, passiveProviders,
          equilibriumNodes, passiveRequestors, activeRequestors, assets,
          notifications, terminalOverload, stats, stage, pc, trace, lastCall,
          nCalls, tick, ran, built>>

\* ------------------------------------------------------------------ bounds

MaxCalls == 2       \* override calls (requestResource/exportResource) in a behaviour
MaxTicks == 2       \* game ticks in a behaviour

\* ------------------------------------------------------- engine constants

LAB_MINERAL_CAPACITY == 3000
TERMINAL_CAPACITY == 300000
STORAGE_CAPACITY == 1000000
FACTORY_CAPACITY == 50000
CREEP_LIFE_TIME == 1500
TERMINAL_COOLDOWN == 10
OK == 0
ERR_NOT_ENOUGH_RESOURCES == -6
ERR_INVALID_ARGS == -10
ERR_TIRED == -11
RESOURCE_ENERGY == "energy"
RESOURCE_POWER == "power"

\* The result of 0/0 (the mean over no colony); every comparison with it is
\* false and every sum or difference with it is NaN again.
NaN == -999999999

Plus(a, b) == IF a = NaN \/ b = NaN THEN NaN ELSE a + b
Minus(a, b) == IF a = NaN \/ b = NaN THEN NaN ELSE a - b
GT(a, b) == a # NaN /\ b # NaN /\ a > b
GE(a, b) == a # NaN /\ b # NaN /\ a >= b
LT(a, b) == a # NaN /\ b # NaN /\ a < b
LE(a, b) == a # NaN /\ b # NaN /\ a <= b
Max(a, b) == IF a >= b THEN a ELSE b
Min(a, b) == IF a <= b THEN a ELSE b
\* Math.max and Math.min return NaN as soon as one argument is NaN
MathMax(a, b) == IF a = NaN \/ b = NaN THEN NaN ELSE Max(a, b)
MathMin3(a, b, c) == IF a = NaN \/ b = NaN \/ c = NaN THEN NaN ELSE Min(a, Min(b, c))

Put(f, k, v) == [x \in (DOMAIN f) \cup {k} |-> IF x = k THEN v ELSE f[x]]
Has(f, k) == k \in DOMAIN f
Range(s) == {s[i] : i \in DOMAIN s}
IndexOf(s, e) == CHOOSE i \in DOMAIN s : s[i] = e
Perms(s) ==
    {[i \in 1..Len(s) |-> s[f[i]]] :
        f \in {g \in [1..Len(s) -> 1..Len(s)] : \A i, j \in 1..Len(s) : g[i] = g[j] => i = j}}
RECURSIVE SumOver(_, _)
SumOver(f, S) ==
    IF S = {} THEN 0
    ELSE LET x == CHOOSE y \in S : TRUE IN f[x] + SumOver(f, S \ {x})

\* ------------------------------------------------------------- resources

\* RESOURCE_EXCHANGE_ORDER, restricted to one tier-3 boost, one base mineral,
\* power and energy, in the order of the full list.
RESOURCE_EXCHANGE_ORDER == <<"XUH2O", "U", "power", "energy">>
RESOURCES_ALL == Range(RESOURCE_EXCHANGE_ORDER)
isBoost(resource) == resource \in {"XUH2O"}
isBaseMineral(resource) == resource \in {"U"}

\* ------------------------------------------------------------ thresholds

Thresholds(t, s, tol) == [target |-> t, surplus |-> s, tolerance |-> tol]
DEFAULT_TARGET == 2 * LAB_MINERAL_CAPACITY + 1000
DEFAULT_SURPLUS == 15 * LAB_MINERAL_CAPACITY
DEFAULT_TOLERANCE == LAB_MINERAL_CAPACITY \div 3
THRESHOLDS_DEFAULT == Thresholds(DEFAULT_TARGET, <<DEFAULT_SURPLUS>>, DEFAULT_TOLERANCE)
THRESHOLDS_DONT_WANT == Thresholds(0, <<0>>, 0)
THRESHOLDS_DONT_CARE == Thresholds(0, <<>>, 0)
\* Thresholds of power with a tolerance below the target
THRESHOLDS_POWER_WANTED == Thresholds(2500, <<>>, 1000)
THRESHOLDS_POWER == Thresholds(2500, <<>>, 2500)
THRESHOLDS_OPS == Thresholds(2500, <<>>, 2500)

getThresholds(resource) ==
    IF resource = RESOURCE_POWER THEN THRESHOLDS_POWER
    ELSE IF resource = "ops" THEN THRESHOLDS_OPS
    ELSE IF isBaseMineral(resource) THEN THRESHOLDS_DEFAULT
    ELSE IF isBoost(resource) THEN THRESHOLDS_DEFAULT
    ELSE THRESHOLDS_DONT_CARE
ALL_THRESHOLDS == [resource \in RESOURCES_ALL \ {RESOURCE_ENERGY} |-> getThresholds(resource)]

\* TerminalNetworkV2.settings
maxEnergySendAmount == 25000
maxResourceSendAmount == 3000
minColonySpace == 20000
terminalCooldownAveragingWindow == 1000

\* TN_STATE
activeProvider == 5
passiveProvider == 4
equilibrium == 3
passiveRequestor == 2
activeRequestor == 1
error == 0

\* The fixed-point units of the two averages of recordStats: avgCooldown is
\* kept in thousandths of a tick, overload in millionths
COOLDOWN_UNIT == 1000
OVERLOAD_UNIT == 1000000

\* TraderJoe.settings.market.credits
canBuyAbove == 10000
canBuyBoostsAbove == 50000
canBuyEnergyAbove == 100000

\* ------------------------------------------------------------- the world

ColonyNames == {"W1N1", "W2N1", "W4N1"}
\* The order in which the Colony objects are constructed
ColonyOrder == <<"W1N1", "W2N1", "W4N1">>

\* What the network reads of a Colony: terminal (and terminal.my), level,
\* storage, factory
Kind(t, m, l, s) == [terminal |-> t, my |-> m, level |-> l, storage |-> s, factory |-> FALSE]
Full == Kind(TRUE, TRUE, 8, TRUE)
NoStorage == Kind(TRUE, TRUE, 6, FALSE)
LowLevel == Kind(TRUE, TRUE, 5, TRUE)
Foreign == Kind(TRUE, FALSE, 8, TRUE)
NoTerminal == Kind(FALSE, FALSE, 7, TRUE)
Kinds(a, b, c) == [n \in ColonyNames |-> IF n = "W1N1" THEN a ELSE IF n = "W2N1" THEN b ELSE c]

\* colony.assets: every resource present, 0 when the colony has none
Row(x, u, p, e) ==
    [r \in RESOURCES_ALL |->
        IF r = "XUH2O" THEN x ELSE IF r = "U" THEN u ELSE IF r = "power" THEN p ELSE e]
Quiet == Row(7000, 7000, 2500, 150000)
\* above target + tolerance and below surplus in all but energy
Stocked == Row(9000, 9000, 6000, 150000)
Assets(a, b, c) == [n \in ColonyNames |-> IF n = "W1N1" THEN a ELSE IF n = "W2N1" THEN b ELSE c]

\* The override calls the directives of the colonies make, as
\* <<colony, resource, amount, tolerance>> and <<colony, resource, thresholds>>
RequestCalls ==
    {<<"W2N1", "U", 10000, 0>>, <<"W2N1", "U", 9000, 1000>>, <<"W4N1", "XUH2O", 10000, 0>>}
ExportCalls ==
    {<<"W2N1", "U", THRESHOLDS_DONT_WANT>>, <<"W2N1", "U", Thresholds(3000, <<5000>>, 1000)>>,
     <<"W1N1", "energy", THRESHOLDS_DONT_WANT>>}

World(k, a, hold, cd, credits, time, requests, exports) ==
    [kind |-> k, assets |-> a, termHold |-> hold, cooldown |-> cd,
     credits |-> credits, time |-> time, requests |-> requests, exports |-> exports,
     queries |-> {}, memory |-> <<>>]
\* A world in which thresholds() is queried by other parts of the program
Asking(w, queries) == [w EXCEPT !.queries = queries]
\* A world whose Memory holds the ledger of an earlier life of the network
Remembering(w, transfers, costs) ==
    [w EXCEPT !.memory = <<[transfers |-> transfers, costs |-> costs,
                            avgCooldown |-> <<>>, overload |-> <<>>]>>]
\* A world whose Memory holds the terminal averages of an earlier life
RememberingTerminals(w, avgCooldown, overload) ==
    [w EXCEPT !.memory = <<[transfers |-> <<>>, costs |-> <<>>,
                            avgCooldown |-> avgCooldown, overload |-> overload]>>]
Ready == [n \in ColonyNames |-> 0]
Tired == [n \in ColonyNames |-> IF n = "W1N1" THEN 3 ELSE 0]

\* The worlds a behaviour may start in.  Energy amounts are chosen so that the
\* mean over the colonies and a fifth of it are whole numbers: the divisions
\* of getEnergyThresholds are exact.
Worlds ==
    {
     \* two colonies in the network with nothing to do, and every directive
     World(Kinds(Full, Full, NoTerminal),
           Assets(Row(7000, 8000, 2500, 150000), Stocked, Quiet),
           30000, Ready, 200000, 5, RequestCalls, ExportCalls),
     \* two colonies without U, one of them asking for it
     Asking(
         World(Kinds(Full, Full, NoTerminal),
               Assets(Row(7000, 0, 2500, 150000), Row(9000, 0, 6000, 150000), Quiet),
               30000, Ready, 0, 5,
               {<<"W2N1", "U", 10000, 0>>, <<"W2N1", "U", 9000, 1000>>},
               {<<"W2N1", "U", THRESHOLDS_DONT_WANT>>}),
         {<<"W1N1", "U">>, <<"W2N1", "U">>}),
     \* a passive provider and a passive requestor of a boost and a mineral
     World(Kinds(Full, Full, NoTerminal),
           Assets(Row(21000, 21000, 2500, 150000), Row(0, 0, 6000, 150000), Quiet),
           30000, Ready, 200000, 5, {<<"W2N1", "U", 10000, 0>>}, {}),
     \* the same with the provider's terminal on cooldown
     \* and averages of 3 ticks of cooldown and of constant overload remembered
     RememberingTerminals(
         World(Kinds(Full, Full, NoTerminal),
               Assets(Row(21000, 21000, 2500, 150000), Row(0, 0, 6000, 150000), Quiet),
               30000, Tired, 200000, 5, {<<"W2N1", "U", 10000, 0>>}, {}),
         [c \in {"W1N1"} |-> 3 * COOLDOWN_UNIT], [c \in {"W1N1"} |-> OVERLOAD_UNIT]),
     \* the same with little of it in the terminals, credits for a mineral
     \* but not for a boost or energy, and requests for more than the provider
     \* has
     World(Kinds(Full, Full, NoTerminal),
           Assets(Row(21000, 21000, 2500, 150000), Row(0, 0, 6000, 150000), Quiet),
           2000, Ready, 20000, 5,
           {<<"W2N1", "U", 25000, 0>>, <<"W2N1", "XUH2O", 25000, 0>>,
            <<"W2N1", "energy", 200000, 0>>}, {}),
     \* an active provider of U (above surplus) and a colony below target,
     \* which may ask for as much as the provider has to spare
     Remembering(
         World(Kinds(Full, Full, LowLevel),
               Assets(Row(7000, 46000, 2500, 150000), Row(9000, 3000, 6000, 150000), Quiet),
               40000, Ready, 200000, 6, {<<"W2N1", "U", 42000, 0>>}, {}),
         [k \in {<<"U", "W1N1", "W2N1">>} |-> 1000], [k \in {<<"W1N1", "W2N1">>} |-> 33]),
     \* energy: one colony above the 500000 surplus, one with none; all of
     \* it is in the storages, the terminals are empty
     World(Kinds(Full, Full, Foreign),
           Assets(Row(7000, 7000, 2500, 600000), Row(9000, 9000, 6000, 0), Quiet),
           0, Ready, 0, 5, {}, {}),
     \* three colonies in the network: one above the surplus of U and two
     \* short of it; two that can spare a boost the third is short of, the
     \* nearer of them remembered with an average of 3 ticks of cooldown; one
     \* without power and one with power to spare
     RememberingTerminals(
         World(Kinds(Full, Full, Full),
               Assets(Row(9000, 46000, 2500, 100000), Row(5000, 0, 6000, 200000),
                      Row(9000, 0, 0, 300000)),
               30000, Ready, 0, 6, {}, {}),
         [c \in {"W1N1"} |-> 3 * COOLDOWN_UNIT], [c \in {"W1N1"} |-> 0]),
     \* a single colony in the network, without storage and full
     World(Kinds(NoStorage, LowLevel, Foreign),
           Assets(Row(7000, 7000, 2500, 300000), Quiet, Quiet),
           30000, Ready, 0, 6, {}, {}),
     \* two colonies with different energy, one of them exporting its energy,
     \* and a query of the energy thresholds
     Asking(
         World(Kinds(Full, Full, NoTerminal),
               Assets(Row(7000, 7000, 2500, 100000), Row(9000, 9000, 6000, 200000), Quiet),
               30000, Ready, 0, 6, {}, {<<"W1N1", "energy", THRESHOLDS_DONT_WANT>>}),
         {<<"W2N1", "energy">>}),
     \* a colony short of U, which it may ask for, and one with less to spare
     \* than the other lacks
     World(Kinds(Full, Full, NoTerminal),
           Assets(Row(7000, 10000, 2500, 150000), Row(9000, 0, 6000, 150000), Quiet),
           30000, Ready, 200000, 5, {<<"W2N1", "U", 10000, 0>>}, {}),
     \* a colony short of U and two colonies that have less to spare than it
     \* lacks, the nearer one more than the farther
     World(Kinds(Full, Full, Full),
           Assets(Row(7000, 10000, 2500, 120000), Row(9000, 0, 6000, 120000),
                  Row(9000, 9000, 2500, 210000)),
           30000, Ready, 0, 6, {}, {}),
     \* the same with little of it in the terminals
     World(Kinds(Full, Full, NoTerminal),
           Assets(Row(7000, 10000, 2500, 150000), Row(9000, 0, 6000, 150000), Quiet),
           2000, Ready, 200000, 6, {}, {}),
     \* a colony without storage that is full and above target + tolerance
     World(Kinds(Full, NoStorage, NoTerminal),
           Assets(Row(9000, 3000, 6000, 150000), Row(7000, 10000, 2500, 300000), Quiet),
           30000, Ready, 0, 6, {}, {}),
     \* three colonies without storage: two that are full and have U to
     \* spare, and one without U that has room for what either of them
     \* spares but not for both
     World(Kinds(NoStorage, NoStorage, NoStorage),
           Assets(Row(7000, 10000, 2500, 300000), Row(7000, 10000, 2500, 300000),
                  Row(9000, 0, 6000, 260000)),
           30000, Ready, 0, 6, {}, {}),
     \* three colonies: an active and a passive provider of a boost, for U a
     \* near passive provider that can spare less than a farther one, and a
     \* passive provider of energy that goes below its target by sending
     World(Kinds(Full, Full, Full),
           Assets(Row(46000, 8500, 2500, 100000), Row(5000, 5000, 6000, 230000),
                  Row(9000, 9000, 2500, 270000)),
           30000, Ready, 0, 4, {}, {})
    }

\* ---------------------------------------------------------- colony view

kindOf(colony) == world.kind[colony]
colonyAssets(colony) == world.assets[colony]
\* terminal.store: a colony without storage keeps everything in its terminal,
\* another keeps up to termHold of each resource there and the rest in storage
store(colony, resource) ==
    IF kindOf(colony).storage
    THEN Min(world.assets[colony][resource], world.termHold)
    ELSE world.assets[colony][resource]
sumAssets(colony) == SumOver(world.assets[colony], RESOURCES_ALL)
sumTerminal(colony) == SumOver([r \in RESOURCES_ALL |-> store(colony, r)], RESOURCES_ALL)
sumStorage(colony) == sumAssets(colony) - sumTerminal(colony)
\* StructureTerminal.isReady and hasReceived
isReady(colony) == world.cooldown[colony] = 0 /\ colony \notin termSent
hasReceived(colony) == colony \in termReceived

\* Game.map.getRoomLinearDistance for the three rooms
Abs(x) == IF x < 0 THEN -x ELSE x
RoomX(name) == IF name = "W1N1" THEN 1 ELSE IF name = "W2N1" THEN 2 ELSE 4
roomDistance(a, b) == Abs(RoomX(a) - RoomX(b))
\* 1000 * (1 - exp(-distance / 30)), rounded, for the distances 0..3
costRate(d) == IF d = 0 THEN 0 ELSE IF d = 1 THEN 33 ELSE IF d = 2 THEN 64 ELSE 95
\* Game.market.calcTransactionCost: ceil(amount * (1 - exp(-distance / 30)))
calcTransactionCost(amount, origin, destination) ==
    IF amount = NaN THEN NaN
    ELSE (amount * costRate(roomDistance(origin, destination)) + 999) \div 1000

\* ------------------------------------------------ construction and refresh

TerminalNetworkStatsDefaults ==
    [transfers |-> <<>>,        \* <<resource, origin, destination>> -> units
     costs |-> <<>>,            \* <<origin, destination>> -> energy
     avgCooldown |-> <<>>,      \* colony -> average cooldown, in thousandths
     overload |-> <<>>,         \* colony -> average overload, in millionths
     states |-> [activeProviders |-> <<>>, passiveProviders |-> <<>>,
                 equilibriumNodes |-> <<>>, passiveRequestors |-> <<>>,
                 activeRequestors |-> <<>>]]

\* The last call of a public operation: what it was given, how it ended, and
\* whether it warned that it overrides thresholds already set
NoCall == [op |-> "constructor", colony |-> "", resource |-> "",
           th |-> THRESHOLDS_DONT_CARE, outcome |-> "ok", warned |-> FALSE, seq |-> 0,
           again |-> FALSE]
\* again: the call before it was of the same operation
Call(op, colony, resource, th, outcome) ==
    [op |-> op, colony |-> colony, resource |-> resource, th |-> th,
     outcome |-> outcome, warned |-> FALSE, seq |-> 1 - lastCall.seq,
     again |-> lastCall.op = op]

\* constructor(): colonies = [] and refresh(), on the first tick of a world;
\* this.stats is Memory's terminalNetwork entry filled up with the defaults
Init ==
    /\ world \in Worlds
    /\ termSent = {}
    /\ termReceived = {}
    /\ colonies = <<>>
    /\ colonyThresholds = <<>>
    /\ _energyThresholds = <<>>
    /\ colonyStates = <<>>
    /\ activeProviders = <<>>
    /\ passiveProviders = <<>>
    /\ equilibriumNodes = <<>>
    /\ passiveRequestors = <<>>
    /\ activeRequestors = <<>>
    /\ assets = <<>>
    /\ notifications = <<>>
    /\ terminalOverload = {}
    /\ stats = IF world.memory = <<>> THEN TerminalNetworkStatsDefaults
               ELSE [TerminalNetworkStatsDefaults EXCEPT
                        !.transfers = world.memory[1].transfers,
                        !.costs = world.memory[1].costs,
                        !.avgCooldown = world.memory[1].avgCooldown,
                        !.overload = world.memory[1].overload]
    /\ stage = "build"
    /\ pc = [phase |-> 0, ri |-> 0, ci |-> 0]
    /\ trace = <<>>
    /\ lastCall = NoCall
    /\ nCalls = 0
    /\ tick = 1
    /\ ran = FALSE
    /\ built = 0

\* refresh() leaving the overload flags of the tick before
refreshKeepsOverload ==
    /\ stage \in {"build", "refreshed", "inited", "done", "raised"}
    /\ stage = "build" => built = Len(ColonyOrder)
    /\ colonyThresholds' = <<>>
    /\ _energyThresholds' = <<>>
    /\ colonyStates' = <<>>
    /\ activeProviders' = <<>>
    /\ passiveProviders' = <<>>
    /\ equilibriumNodes' = <<>>
    /\ passiveRequestors' = <<>>
    /\ activeRequestors' = <<>>
    /\ assets' = <<>>
    /\ notifications' = <<>>
    /\ stage' = "refreshed"
    /\ trace' = <<>>
    /\ lastCall' = Call("refresh", "", "", THRESHOLDS_DONT_CARE, "ok")
    /\ UNCHANGED <<envVars, colonies, terminalOverload, stats, pc, nCalls, tick, ran, built>>

\* refresh() starting the statistics afresh from the defaults
refreshWithFreshStats ==
    /\ stage \in {"build", "refreshed", "inited", "done", "raised"}
    /\ stage = "build" => built = Len(ColonyOrder)
    /\ colonyThresholds' = <<>>
    /\ _energyThresholds' = <<>>
    /\ colonyStates' = <<>>
    /\ activeProviders' = <<>>
    /\ passiveProviders' = <<>>
    /\ equilibriumNodes' = <<>>
    /\ passiveRequestors' = <<>>
    /\ activeRequestors' = <<>>
    /\ assets' = <<>>
    /\ terminalOverload' = {}
    /\ notifications' = <<>>
    /\ stats' = TerminalNetworkStatsDefaults
    /\ stage' = "refreshed"
    /\ trace' = <<>>
    /\ lastCall' = Call("refresh", "", "", THRESHOLDS_DONT_CARE, "ok")
    /\ UNCHANGED <<envVars, colonies, pc, nCalls, tick, ran, built>>

\* refresh(): clears the per-tick data; this.stats is wrapped again around the
\* same persistent memory
refresh ==
    /\ stage \in {"build", "refreshed", "inited", "done", "raised"}
    /\ stage = "build" => built = Len(ColonyOrder)
    /\ colonyThresholds' = <<>>
    /\ _energyThresholds' = <<>>
    /\ colonyStates' = <<>>
    /\ activeProviders' = <<>>
    /\ passiveProviders' = <<>>
    /\ equilibriumNodes' = <<>>
    /\ passiveRequestors' = <<>>
    /\ activeRequestors' = <<>>
    /\ assets' = <<>>
    /\ terminalOverload' = {}
    /\ notifications' = <<>>
    /\ stage' = "refreshed"
    /\ trace' = <<>>
    /\ lastCall' = Call("refresh", "", "", THRESHOLDS_DONT_CARE, "ok")
    /\ UNCHANGED <<envVars, colonies, stats, pc, nCalls, tick, ran, built>>

\* addColony without the level test
canAddColonyAnyLevel(colony) ==
    kindOf(colony).terminal /\ kindOf(colony).my

\* The condition under which addColony accepts a colony
canAddColony(colony) ==
    kindOf(colony).terminal /\ kindOf(colony).my /\ kindOf(colony).level >= 6

\* addColony(colony), called once for each Colony object in construction order
addColony(colony) ==
    /\ stage = "build"
    /\ built < Len(ColonyOrder)
    /\ colony = ColonyOrder[built + 1]
    /\ built' = built + 1
    /\ IF ~canAddColony(colony)
       THEN /\ colonies' = colonies
            /\ lastCall' = Call("addColony", colony, "", THRESHOLDS_DONT_CARE, "rejected")
       ELSE /\ colonies' = Append(colonies, colony)
            /\ lastCall' = Call("addColony", colony, "", THRESHOLDS_DONT_CARE, "ok")
    /\ UNCHANGED <<envVars, colonyThresholds, _energyThresholds, colonyStates, tierVars,
                   assets, notifications, terminalOverload, stats, stage, pc, trace,
                   nCalls, tick, ran>>

\* mergeSum(_.map(this.colonies, colony => colony.assets)): {} for no colony
mergeSum(cols) ==
    IF cols = <<>> THEN <<>>
    ELSE [r \in RESOURCES_ALL |-> SumOver([c \in Range(cols) |-> colonyAssets(c)[r]], Range(cols))]

getAssets == IF assets = <<>> THEN mergeSum(colonies) ELSE assets

\* init(): the asset snapshot, and an empty state map for each colony
init ==
    /\ stage = "refreshed"
    /\ ~ran
    /\ assets' = getAssets
    /\ colonyStates' = [c \in (DOMAIN colonyStates) \cup Range(colonies) |->
                            IF c \in Range(colonies) THEN <<>> ELSE colonyStates[c]]
    /\ stage' = "inited"
    /\ lastCall' = Call("init", "", "", THRESHOLDS_DONT_CARE, "ok")
    /\ UNCHANGED <<envVars, colonies, colonyThresholds, _energyThresholds, tierVars,
                   notifications, terminalOverload, stats, pc, trace, nCalls, tick,
                   ran, built>>

\* The game moves to the next tick: cooldowns count down (a terminal that sent
\* starts at TERMINAL_COOLDOWN), the per-tick terminal flags are gone
NextTick ==
    /\ ran
    /\ stage \in {"done", "refreshed"}
    /\ tick < MaxTicks
    /\ tick' = tick + 1
    /\ ran' = FALSE
    /\ world' = [world EXCEPT
            !.time = @ + 1,
            !.cooldown = [c \in ColonyNames |->
                            IF c \in termSent THEN TERMINAL_COOLDOWN - 1
                            ELSE Max(world.cooldown[c] - 1, 0)]]
    /\ termSent' = {}
    /\ termReceived' = {}
    /\ UNCHANGED <<netVars, stage, pc, trace, lastCall, nCalls, built>>

\* ------------------------------------------------------------ thresholds

hasOverride(colony, resource) ==
    Has(colonyThresholds, colony) /\ Has(colonyThresholds[colony], resource)

\* The colonies getEnergyThresholds averages over
nonExceptionalColonies ==
    SelectSeq(colonies, LAMBDA colony :
        kindOf(colony).storage /\ ~hasOverride(colony, RESOURCE_ENERGY))

\* The object getEnergyThresholds builds when nothing is cached
newEnergyThresholds ==
    LET n == Len(nonExceptionalColonies)
        total == SumOver([c \in Range(nonExceptionalColonies) |-> colonyAssets(c)[RESOURCE_ENERGY]],
                         Range(nonExceptionalColonies))
        avgEnergy == IF n = 0 THEN NaN ELSE total \div n
    IN  Thresholds(avgEnergy, <<500000>>, IF avgEnergy = NaN THEN NaN ELSE avgEnergy \div 5)

getEnergyThresholds ==
    IF _energyThresholds = <<>> THEN newEnergyThresholds ELSE _energyThresholds[1]

\* thresholds() taking an override of the colony for any resource
thresholdsOfAnyResource(colony, resource) ==
    IF Has(colonyThresholds, colony) /\ DOMAIN colonyThresholds[colony] # {}
    THEN colonyThresholds[colony][CHOOSE r \in DOMAIN colonyThresholds[colony] : TRUE]
    ELSE IF resource = RESOURCE_ENERGY THEN getEnergyThresholds
    ELSE ALL_THRESHOLDS[resource]

\* thresholds(colony, resource): the value returned
thresholds(colony, resource) ==
    IF hasOverride(colony, resource) THEN colonyThresholds[colony][resource]
    ELSE IF resource = RESOURCE_ENERGY THEN getEnergyThresholds
    ELSE ALL_THRESHOLDS[resource]

\* A call of thresholds(colony, resource) from outside the network, between
\* init() and run(): for energy without an override it leaves the computed
\* thresholds cached
thresholdsCall(colony, resource) ==
    /\ stage = "inited"
    /\ nCalls < MaxCalls
    /\ nCalls' = nCalls + 1
    /\ _energyThresholds' =
            IF ~hasOverride(colony, resource) /\ resource = RESOURCE_ENERGY
               /\ _energyThresholds = <<>>
            THEN <<newEnergyThresholds>>
            ELSE _energyThresholds
    /\ lastCall' = Call("thresholds", colony, resource, thresholds(colony, resource), "ok")
    /\ UNCHANGED <<envVars, colonies, colonyThresholds, colonyStates, tierVars, assets,
                   notifications, terminalOverload, stats, stage, pc, trace, tick, ran,
                   built>>

\* getRemainingSpace(colony), includeFactoryCapacity = false
getRemainingSpace(colony) ==
    LET total == sumAssets(colony)
        totalAssets == IF kindOf(colony).storage /\ sumStorage(colony) > STORAGE_CAPACITY
                       THEN total - (sumStorage(colony) - STORAGE_CAPACITY)
                       ELSE total
        roomCapacity == (IF kindOf(colony).terminal THEN TERMINAL_CAPACITY ELSE 0)
                        + (IF kindOf(colony).storage THEN STORAGE_CAPACITY ELSE 0)
    IN  roomCapacity - totalAssets

\* getColonyState taking every near-full colony for an active provider
getColonyStateFullIsActive(colony, resource) ==
    LET th == thresholds(colony, resource)
        target == th.target
        surplus == th.surplus
        tolerance == th.tolerance
        amount == colonyAssets(colony)[resource]
    IN  IF \/ (surplus # <<>> /\ amount > surplus[1])
           \/ getRemainingSpace(colony) < minColonySpace
        THEN activeProvider
        ELSE IF (surplus = <<>> \/ surplus[1] >= amount) /\ GT(amount, Plus(target, tolerance))
        THEN passiveProvider
        ELSE IF GE(Plus(target, tolerance), amount)
                /\ GE(amount, MathMax(Minus(target, tolerance), 0))
        THEN equilibrium
        ELSE IF LT(amount, MathMax(Minus(target, tolerance), 0))
        THEN passiveRequestor
        ELSE error

\* getColonyState(colony, resource)
getColonyState(colony, resource) ==
    LET th == thresholds(colony, resource)
        target == th.target
        surplus == th.surplus
        tolerance == th.tolerance
        amount == colonyAssets(colony)[resource]
    IN  IF \/ (surplus # <<>> /\ amount > surplus[1])
           \/ (GT(amount, Plus(target, tolerance))
               /\ getRemainingSpace(colony) < minColonySpace)
        THEN activeProvider
        ELSE IF (surplus = <<>> \/ surplus[1] >= amount) /\ GT(amount, Plus(target, tolerance))
        THEN passiveProvider
        ELSE IF GE(Plus(target, tolerance), amount)
                /\ GE(amount, MathMax(Minus(target, tolerance), 0))
        THEN equilibrium
        ELSE IF LT(amount, MathMax(Minus(target, tolerance), 0))
        THEN passiveRequestor
        ELSE error

\* --------------------------------------------------------------- overrides

overrideStage == stage \in {"refreshed", "inited"} /\ nCalls < MaxCalls

\* The test of requestResource with > for >=
alreadyHasMore(requestor, resource, amount) ==
    colonyAssets(requestor)[resource] > amount

\* The test of requestResource that drops the call
alreadyHasEnough(requestor, resource, amount) ==
    colonyAssets(requestor)[resource] >= amount

\* colonyThresholds with an entry for the colony
withColony(ct, colony) == IF Has(ct, colony) THEN ct ELSE Put(ct, colony, <<>>)
\* An assignment that keeps thresholds already set
setThresholdKeepsFirst(ct, colony, resource, th) ==
    IF Has(ct, colony) /\ Has(ct[colony], resource) THEN ct
    ELSE Put(withColony(ct, colony), colony, Put(withColony(ct, colony)[colony], resource, th))
setThreshold(ct, colony, resource, th) ==
    Put(withColony(ct, colony), colony, Put(withColony(ct, colony)[colony], resource, th))

\* requestResource(requestor, resource, amount, tolerance).  The last line
\* writes into colonyStates[requestor.name]: a TypeError when init() has made
\* no state map for the colony; the thresholds are set by then.
requestResource(requestor, resource, amount, tolerance) ==
    /\ overrideStage
    /\ nCalls' = nCalls + 1
    /\ IF alreadyHasEnough(requestor, resource, amount)
       THEN /\ UNCHANGED <<colonyThresholds, colonyStates>>
            /\ lastCall' = Call("requestResource", requestor, resource,
                                Thresholds(amount, <<>>, tolerance), "rejected")
       ELSE /\ colonyThresholds' = setThreshold(colonyThresholds, requestor, resource,
                                                Thresholds(amount, <<>>, tolerance))
            /\ IF Has(colonyStates, requestor)
               THEN /\ colonyStates' = Put(colonyStates, requestor,
                                           Put(colonyStates[requestor], resource, activeRequestor))
                    /\ lastCall' = [Call("requestResource", requestor, resource,
                                         Thresholds(amount, <<>>, tolerance), "ok")
                                    EXCEPT !.warned = hasOverride(requestor, resource)]
               ELSE /\ colonyStates' = colonyStates
                    /\ lastCall' = [Call("requestResource", requestor, resource,
                                         Thresholds(amount, <<>>, tolerance), "raised")
                                    EXCEPT !.warned = hasOverride(requestor, resource)]
    /\ UNCHANGED <<envVars, colonies, _energyThresholds, tierVars, assets, notifications,
                   terminalOverload, stats, stage, pc, trace, tick, ran, built>>

\* exportResource recording the activeProvider state as well
exportResourceSetsState(provider, resource, th) ==
    /\ overrideStage
    /\ nCalls' = nCalls + 1
    /\ colonyThresholds' = setThreshold(colonyThresholds, provider, resource, th)
    /\ colonyStates' = IF Has(colonyStates, provider)
                       THEN Put(colonyStates, provider,
                                Put(colonyStates[provider], resource, activeProvider))
                       ELSE colonyStates
    /\ lastCall' = [Call("exportResource", provider, resource, th, "ok")
                    EXCEPT !.warned = hasOverride(provider, resource)]
    /\ UNCHANGED <<envVars, colonies, _energyThresholds, tierVars, assets,
                   notifications, terminalOverload, stats, stage, pc, trace, tick, ran,
                   built>>

\* exportResource(provider, resource, thresholds)
exportResource(provider, resource, th) ==
    /\ overrideStage
    /\ nCalls' = nCalls + 1
    /\ colonyThresholds' = setThreshold(colonyThresholds, provider, resource, th)
    /\ lastCall' = [Call("exportResource", provider, resource, th, "ok")
                    EXCEPT !.warned = hasOverride(provider, resource)]
    /\ UNCHANGED <<envVars, colonies, _energyThresholds, colonyStates, tierVars, assets,
                   notifications, terminalOverload, stats, stage, pc, trace, tick, ran,
                   built>>

\* ------------------------------------------------------- assignColonyStates

\* assignColonyStates classifying every colony anew
assignedStateClassifierOnly(colony, resource) == getColonyState(colony, resource)

\* The state a colony ends assignColonyStates with: the one already recorded
\* (by requestResource), else the classifier's
assignedState(colony, resource) ==
    IF Has(colonyStates[colony], resource) /\ colonyStates[colony][resource] # error
    THEN colonyStates[colony][resource]
    ELSE getColonyState(colony, resource)

\* A tier list before the shuffle, for every resource: colonies pushed in the
\* order of this.colonies
tierList(state, resource) ==
    SelectSeq(colonies, LAMBDA colony : assignedState(colony, resource) = state)

\* _.shuffle of every list of a tier: the tiers with a key for each resource
\* that has a colony in it, in any order
RECURSIVE shuffledTiers(_, _)
shuffledTiers(state, i) ==
    IF i > Len(RESOURCE_EXCHANGE_ORDER) THEN {<<>>}
    ELSE LET resource == RESOURCE_EXCHANGE_ORDER[i]
             rest == shuffledTiers(state, i + 1)
         IN  IF tierList(state, resource) = <<>> THEN rest
             ELSE {Put(f, resource, p) : f \in rest, p \in Perms(tierList(state, resource))}

\* ------------------------------------------------------- position of run()

\* The list a phase iterates for a resource (requestors[resource] || [])
listOf(tier, resource) == IF Has(tier, resource) THEN tier[resource] ELSE <<>>
\* run() with its two handleRequestors calls in the other order
phaseTierPassiveFirst(b, phase) ==
    IF phase = 1 THEN b.passiveRequestors
    ELSE IF phase = 2 THEN b.activeProviders
    ELSE b.activeRequestors

\* The tier whose instances a phase of run() goes through
phaseTier(b, phase) ==
    IF phase = 1 THEN b.activeRequestors
    ELSE IF phase = 2 THEN b.activeProviders
    ELSE b.passiveRequestors

\* The outer loops going through the resources from the last to the first
loopResourceBackwards(ri) == RESOURCE_EXCHANGE_ORDER[Len(RESOURCE_EXCHANGE_ORDER) + 1 - ri]

\* The resource of the ri-th pass of for (const resource of RESOURCE_EXCHANGE_ORDER)
loopResource(ri) == RESOURCE_EXCHANGE_ORDER[ri]

\* The first loop iteration at or after (phase, ri, ci); phase 4 is recordStats
RECURSIVE seek(_, _, _, _)
seek(b, phase, ri, ci) ==
    IF phase > 3 THEN [phase |-> 4, ri |-> 0, ci |-> 0]
    ELSE IF ri > Len(RESOURCE_EXCHANGE_ORDER) THEN seek(b, phase + 1, 1, 1)
    ELSE IF ci <= Len(listOf(phaseTier(b, phase), loopResource(ri)))
    THEN [phase |-> phase, ri |-> ri, ci |-> ci]
    ELSE seek(b, phase, ri + 1, 1)

buckets ==
    [activeRequestors |-> activeRequestors, activeProviders |-> activeProviders,
     passiveRequestors |-> passiveRequestors]

\* run(), first part: assignColonyStates, up to the first loop iteration
run ==
    /\ stage = "inited"
    /\ ~ran
    /\ colonyThresholds' =
            [c \in (DOMAIN colonyThresholds) \cup Range(colonies) |->
                IF Has(colonyThresholds, c) THEN colonyThresholds[c] ELSE <<>>]
    /\ _energyThresholds' =
            IF _energyThresholds = <<>>
               /\ \E c \in Range(colonies) : ~hasOverride(c, RESOURCE_ENERGY)
            THEN <<newEnergyThresholds>>
            ELSE _energyThresholds
    /\ colonyStates' =
            [c \in DOMAIN colonyStates |->
                IF c \in Range(colonies)
                THEN [r \in RESOURCES_ALL |-> assignedState(c, r)]
                ELSE colonyStates[c]]
    /\ activeRequestors' \in shuffledTiers(activeRequestor, 1)
    /\ passiveRequestors' \in shuffledTiers(passiveRequestor, 1)
    /\ equilibriumNodes' \in shuffledTiers(equilibrium, 1)
    /\ passiveProviders' \in shuffledTiers(passiveProvider, 1)
    /\ activeProviders' \in shuffledTiers(activeProvider, 1)
    /\ pc' = seek(buckets', 1, 1, 1)
    /\ stage' = "running"
    /\ ran' = TRUE
    /\ lastCall' = Call("run", "", "", THRESHOLDS_DONT_CARE, "ok")
    /\ UNCHANGED <<envVars, colonies, assets, notifications, terminalOverload, stats,
                   trace, nCalls, tick, built>>

\* run() called without init() since the last refresh(): assignColonyStates
\* gives the first colony an empty thresholds map and then reads
\* colonyStates[colony.name][resource] of a state map that is not there, a
\* TypeError that ends the call
runBeforeInit ==
    /\ stage = "refreshed"
    /\ ~ran
    /\ colonies # <<>>
    /\ colonyThresholds' = withColony(colonyThresholds, colonies[1])
    /\ stage' = "raised"
    /\ lastCall' = Call("run", "", "", THRESHOLDS_DONT_CARE, "raised")
    /\ UNCHANGED <<envVars, colonies, _energyThresholds, colonyStates, tierVars, assets,
                   notifications, terminalOverload, stats, pc, trace, nCalls, tick, ran,
                   built>>

\* ------------------------------------------------------------- transfers

\* What a step of run() changes besides its position
Net ==
    [notifications |-> notifications, stats |-> stats,
     terminalOverload |-> terminalOverload, termSent |-> termSent,
     termReceived |-> termReceived, trace |-> trace, used |-> 0, legal |-> TRUE,
     market |-> FALSE]

Ev(ev, phase, colony, partner, resource, amount, st, response, outcome) ==
    [ev |-> ev, phase |-> phase, colony |-> colony, partner |-> partner,
     resource |-> resource, amount |-> amount, store |-> st, response |-> response,
     outcome |-> outcome]
Note(msg, colony, partner, amount, resource) ==
    [msg |-> msg, colony |-> colony, partner |-> partner, amount |-> amount,
     resource |-> resource]

\* The codes StructureTerminal.send can return for a send of the amount
sendResponses(sender, resource, amount) ==
    IF amount = NaN \/ amount <= 0 THEN {ERR_INVALID_ARGS}
    ELSE IF store(sender, resource) < amount THEN {ERR_NOT_ENOUGH_RESOURCES}
    ELSE IF world.cooldown[sender] > 0 THEN {ERR_TIRED}
    ELSE {OK, ERR_NOT_ENOUGH_RESOURCES, ERR_INVALID_ARGS}
SendCodes == {OK, ERR_NOT_ENOUGH_RESOURCES, ERR_INVALID_ARGS, ERR_TIRED}
\* What the market adapter's buy and sell can return
MarketCodes == {OK, ERR_NOT_ENOUGH_RESOURCES}

entry(f, k) == IF Has(f, k) THEN f[k] ELSE 0

\* logTransferCosts(amount, origin, destination)
logTransferCosts(st, amount, origin, destination) ==
    [st EXCEPT !.costs = Put(@, <<origin, destination>>,
        Plus(entry(@, <<origin, destination>>),
             calcTransactionCost(amount, origin, destination)))]

\* logTransfer with = for +=
logTransferOverwrites(st, resourceType, amount, origin, destination) ==
    logTransferCosts(
        [st EXCEPT !.transfers = Put(@, <<resourceType, origin, destination>>, amount)],
        amount, origin, destination)

\* logTransfer(resourceType, amount, origin, destination)
logTransfer(st, resourceType, amount, origin, destination) ==
    logTransferCosts(
        [st EXCEPT !.transfers = Put(@, <<resourceType, origin, destination>>,
            Plus(entry(@, <<resourceType, origin, destination>>), amount))],
        amount, origin, destination)

\* transfer() writing the overload into the statistics instead of the flags
transferOverloadIntoStats(S, sender, receiver, resourceType, amount, phase, description, response) ==
    LET sent == [S EXCEPT
                    !.trace = Append(@, Ev("send", phase, sender, receiver, resourceType,
                                           amount, store(sender, resourceType), response,
                                           description)),
                    !.used = @ + 1,
                    !.legal = @ /\ response \in sendResponses(sender, resourceType, amount)]
    IN  IF response = OK
        THEN [sent EXCEPT
                !.notifications = Append(@, Note(description, sender, receiver, amount,
                                                 resourceType)),
                !.stats = logTransfer(@, resourceType, amount, sender, receiver),
                !.termSent = @ \cup {sender},
                !.termReceived = @ \cup {receiver}]
        ELSE IF response = ERR_NOT_ENOUGH_RESOURCES \/ response = ERR_TIRED
        THEN [sent EXCEPT !.stats.overload = Put(@, sender, OVERLOAD_UNIT)]
        ELSE sent

\* transfer(sender, receiver, resourceType, amount, description), the engine
\* answering `response`; a send that returns OK leaves the sender not ready
transfer(S, sender, receiver, resourceType, amount, phase, description, response) ==
    LET sent == [S EXCEPT
                    !.trace = Append(@, Ev("send", phase, sender, receiver, resourceType,
                                           amount, store(sender, resourceType), response,
                                           description)),
                    !.used = @ + 1,
                    !.legal = @ /\ response \in sendResponses(sender, resourceType, amount)]
    IN  IF response = OK
        THEN [sent EXCEPT
                !.notifications = Append(@, Note(description, sender, receiver, amount,
                                                 resourceType)),
                !.stats = logTransfer(@, resourceType, amount, sender, receiver),
                !.termSent = @ \cup {sender},
                !.termReceived = @ \cup {receiver}]
        ELSE IF response = ERR_NOT_ENOUGH_RESOURCES \/ response = ERR_TIRED
        THEN [sent EXCEPT !.terminalOverload = @ \cup {sender}]
        ELSE sent

\* sendTerm.isReady, inside a step
readyIn(S, colony) == world.cooldown[colony] = 0 /\ colony \notin S.termSent

maxSend(resource) ==
    IF resource = RESOURCE_ENERGY THEN maxEnergySendAmount ELSE maxResourceSendAmount

\* --------------------------------------------------------- partner choice

\* maxBy and minBy: the first element whose value is the largest / smallest;
\* iteratee is the value of each element
maxBy(objects, iteratee) ==
    objects[CHOOSE i \in DOMAIN objects :
        /\ \A j \in DOMAIN objects : iteratee[objects[j]] <= iteratee[objects[i]]
        /\ \A j \in 1..(i - 1) : iteratee[objects[j]] < iteratee[objects[i]]]
minBy(objects, iteratee) ==
    objects[CHOOSE i \in DOMAIN objects :
        /\ \A j \in DOMAIN objects : iteratee[objects[j]] >= iteratee[objects[i]]
        /\ \A j \in 1..(i - 1) : iteratee[objects[j]] > iteratee[objects[i]]]

K == 2
BIG_COST == 2000

\* The score of getBestSenderColony, times BIG_COST (avgCooldown is kept in
\* thousandths): -sendCost * (K + sendCost / BIG_COST + avgCooldown)
senderScore(amount, colony, partner) ==
    LET sendCost == calcTransactionCost(amount, partner, colony)
        avgCooldown == entry(stats.avgCooldown, partner)
    IN  -1 * sendCost * (K * BIG_COST + sendCost + (BIG_COST * avgCooldown) \div 1000)

\* The partner with the least transaction cost, whatever its cooldown
getCheapestSenderColony(resource, amount, colony, partners) ==
    minBy(partners, [partner \in Range(partners) |->
                        calcTransactionCost(amount, partner, colony)])

\* getBestSenderColony(resource, amount, colony, partners)
getBestSenderColony(resource, amount, colony, partners) ==
    maxBy(partners, [partner \in Range(partners) |-> senderScore(amount, colony, partner)])

\* _.sortBy: ascending, equal keys in their original order
sortBy(objects, iteratee) ==
    LET before(i, j) == \/ iteratee[objects[i]] < iteratee[objects[j]]
                        \/ (iteratee[objects[i]] = iteratee[objects[j]] /\ i < j)
        rank(j) == 1 + Cardinality({i \in DOMAIN objects : before(i, j)})
    IN  [k \in DOMAIN objects |-> objects[CHOOSE j \in DOMAIN objects : rank(j) = k]]
take(objects, n) == SubSeq(objects, 1, Min(n, Len(objects)))
RECURSIVE flatten(_)
flatten(lists) == IF lists = <<>> THEN <<>> ELSE Head(lists) \o flatten(Tail(lists))

\* ---------------------------------------------------- handleRequestInstance

\* The partners of one set that hold as much as the request
requestPartnersWithEnough(colony, resource, requestAmount, partners) ==
    SelectSeq(partners, LAMBDA partner :
        GE(colonyAssets(partner)[resource], requestAmount))

\* The partners of one set that can send the whole request: those left at or
\* above their target, else those left above target - the requestor's tolerance
requestPartners(colony, resource, requestAmount, partners) ==
    LET strict == SelectSeq(partners, LAMBDA partner :
                    GE(Minus(colonyAssets(partner)[resource], requestAmount),
                       thresholds(partner, resource).target))
        relaxed == SelectSeq(partners, LAMBDA partner :
                    GE(Minus(colonyAssets(partner)[resource], requestAmount),
                       Minus(thresholds(partner, resource).target,
                             thresholds(colony, resource).tolerance)))
    IN  IF Len(strict) = 0 THEN relaxed ELSE strict

\* The single-partner request path sending without the test
requestSenderAlwaysReady(S, sendTerm) == TRUE

\* The test before the send of the single-partner request path
requestSenderReady(S, sendTerm) == readyIn(S, sendTerm)

\* The amount the single-partner request path passes to transfer()
requestTransferAmount(requestAmount, sendAmount) == requestAmount

\* The single-partner path leaving a sender that is not ready unflagged
requestFromBestUnflagged(S, colony, resource, requestAmount, validPartners, phase, resp) ==
    LET bestPartner == getBestSenderColony(resource, requestAmount, colony, validPartners)
        sendAmount == MathMin3(requestAmount, store(bestPartner, resource), maxSend(resource))
    IN  IF requestSenderReady(S, bestPartner)
        THEN transfer(S, bestPartner, colony, resource,
                      requestTransferAmount(requestAmount, sendAmount), phase, "request",
                      resp[S.used + 1])
        ELSE [S EXCEPT
                !.trace = Append(@, Ev("notready", phase, bestPartner, colony, resource,
                                       requestAmount, store(bestPartner, resource), OK,
                                       "request"))]

\* The single-partner path, with the partner set that has valid partners
requestFromBest(S, colony, resource, requestAmount, validPartners, phase, resp) ==
    LET bestPartner == getBestSenderColony(resource, requestAmount, colony, validPartners)
        sendAmount == MathMin3(requestAmount, store(bestPartner, resource), maxSend(resource))
    IN  IF requestSenderReady(S, bestPartner)
        THEN transfer(S, bestPartner, colony, resource,
                      requestTransferAmount(requestAmount, sendAmount), phase, "request",
                      resp[S.used + 1])
        ELSE [S EXCEPT
                !.terminalOverload = @ \cup {bestPartner},
                !.trace = Append(@, Ev("notready", phase, bestPartner, colony, resource,
                                       requestAmount, store(bestPartner, resource), OK,
                                       "request"))]

MAX_SEND_REQUESTS == 3

\* The partners the divvying draws from
divvyPartners(resource, partnerSets) ==
    take(sortBy(SelectSeq(flatten(partnerSets), LAMBDA partner :
                    GT(colonyAssets(partner)[resource], thresholds(partner, resource).target)),
                [partner \in ColonyNames |->
                    Minus(colonyAssets(partner)[resource],
                          thresholds(partner, resource).target)]),
         MAX_SEND_REQUESTS)

\* The loop over the divvy partners from the i-th on; D is the handler's state
\* plus remainingAmount, sentSome and whether the loop returned true
RECURSIVE divvyLoop(_, _, _, _, _, _, _)
divvyLoop(D, colony, resource, validPartners, i, phase, resp) ==
    IF i > Len(validPartners) \/ D.returned THEN D
    ELSE
      LET partner == validPartners[i]
          amountPartnerCanSend ==
              Minus(store(partner, resource), thresholds(partner, resource).target)
          sendAmount == MathMin3(amountPartnerCanSend, D.remainingAmount, maxSend(resource))
          response == resp[D.S.used + 1]
          D1 == IF readyIn(D.S, partner)
                THEN LET T == transfer(D.S, partner, colony, resource, sendAmount, phase,
                                       "request", response)
                     IN  IF response = OK
                         THEN [D EXCEPT !.S = T,
                                        !.remainingAmount = Minus(@, sendAmount),
                                        !.sentSome = TRUE]
                         ELSE [D EXCEPT !.S = [T EXCEPT !.terminalOverload = @ \cup {partner}]]
                ELSE [D EXCEPT !.S.terminalOverload = @ \cup {partner},
                               !.S.trace = Append(@, Ev("notready", phase, partner, colony,
                                                        resource, sendAmount,
                                                        store(partner, resource), OK,
                                                        "request"))]
          D2 == [D1 EXCEPT !.returned = LE(D1.remainingAmount, 0)]
      IN  divvyLoop(D2, colony, resource, validPartners, i + 1, phase, resp)

\* The market-buy step: [S, success]
marketBuy(S, colony, resource, requestAmount, opts, phase, ret) ==
    IF ~opts.allowMarketBuy THEN [S |-> S, success |-> FALSE]
    ELSE IF resource = RESOURCE_ENERGY /\ world.credits < canBuyEnergyAbove
    THEN [S |-> S, success |-> FALSE]
    ELSE IF isBoost(resource) /\ world.credits < canBuyBoostsAbove
    THEN [S |-> S, success |-> FALSE]
    ELSE [S |-> [S EXCEPT !.market = TRUE,
                          !.trace = Append(@, Ev("buy", phase, colony, "", resource,
                                                 requestAmount, 0, ret, "market"))],
          success |-> ret >= 0]

\* The partner sets gone through from the last to the first
lastHit(hits) == CHOOSE i \in hits : \A j \in hits : i >= j

\* for (const partners of partnerSets): the first set with valid partners
firstHit(hits) == CHOOSE i \in hits : \A j \in hits : i <= j

\* The divvying counted as done only when the whole amount was obtained
divvyComplete(D) == D.returned

\* The divvying ends the request: remainingAmount <= 0 inside the loop, or
\* sentSome after it
divvySucceeded(D) == D.returned \/ D.sentSome

\* handleRequestInstance(colony, resource, requestAmount, partnerSets, opts):
\* [S, success]; resp are the answers of the sends it makes, ret the answer of
\* the market
handleRequestInstance(S, colony, resource, requestAmount, partnerSets, opts, phase, resp, ret) ==
    LET valid(i) == requestPartners(colony, resource, requestAmount, partnerSets[i])
        hits == {i \in DOMAIN partnerSets : Len(valid(i)) > 0}
    IN  IF hits # {}
        THEN LET first == firstHit(hits)
             IN  [S |-> requestFromBest(S, colony, resource, requestAmount, valid(first),
                                        phase, resp),
                  success |-> TRUE]
        ELSE
          LET D0 == [S |-> S, remainingAmount |-> requestAmount, sentSome |-> FALSE,
                     returned |-> FALSE]
              D == IF opts.allowDivvying
                   THEN divvyLoop(D0, colony, resource, divvyPartners(resource, partnerSets),
                                  1, phase, resp)
                   ELSE D0
          IN  IF divvySucceeded(D)
              THEN [S |-> D.S, success |-> TRUE]
              ELSE marketBuy(D.S, colony, resource, requestAmount, opts, phase, ret)

\* ---------------------------------------------------- handleProvideInstance

hasSpaceFor(partner, sendAmount) ==
    GE(Minus(getRemainingSpace(partner), sendAmount), minColonySpace)

\* The partners of one set a provider can push sendAmount to
providePartners(colony, resource, sendAmount, partners) ==
    LET preferred == SelectSeq(partners, LAMBDA partner :
            /\ LE(Plus(colonyAssets(partner)[resource], sendAmount),
                  thresholds(partner, resource).target)
            /\ hasSpaceFor(partner, sendAmount))
        relaxed == SelectSeq(partners, LAMBDA partner :
            /\ LE(Plus(colonyAssets(partner)[resource], sendAmount),
                  Plus(thresholds(partner, resource).target,
                       thresholds(colony, resource).tolerance))
            /\ hasSpaceFor(partner, sendAmount))
        loose == SelectSeq(partners, LAMBDA partner :
            /\ hasSpaceFor(partner, sendAmount)
            /\ IF thresholds(partner, resource).surplus # <<>>
               THEN LT(Plus(colonyAssets(partner)[resource], sendAmount),
                       thresholds(partner, resource).surplus[1])
               ELSE LE(Plus(colonyAssets(partner)[resource], sendAmount),
                       Plus(thresholds(partner, resource).target,
                            thresholds(partner, resource).tolerance)))
    IN  IF Len(preferred) > 0 THEN preferred
        ELSE IF Len(relaxed) > 0 THEN relaxed
        ELSE loose

\* The push to the first of the valid partners, whatever the cost
provideToFirst(S, colony, resource, sendAmount, validPartners, phase, resp) ==
    LET bestPartner == validPartners[1]
        amount == MathMin3(sendAmount, store(colony, resource), maxSend(resource))
    IN  IF readyIn(S, colony)
        THEN transfer(S, colony, bestPartner, resource, amount, phase, "provide",
                      resp[S.used + 1])
        ELSE [S EXCEPT
                !.terminalOverload = @ \cup {colony},
                !.trace = Append(@, Ev("notready", phase, colony, bestPartner, resource,
                                       amount, store(colony, resource), OK, "provide"))]

\* The push to the cheapest of the valid partners
provideToBest(S, colony, resource, sendAmount, validPartners, phase, resp) ==
    LET bestPartner == minBy(validPartners, [partner \in Range(validPartners) |->
                            calcTransactionCost(sendAmount, colony, partner)])
        amount == MathMin3(sendAmount, store(colony, resource), maxSend(resource))
    IN  IF readyIn(S, colony)
        THEN transfer(S, colony, bestPartner, resource, amount, phase, "provide",
                      resp[S.used + 1])
        ELSE [S EXCEPT
                !.terminalOverload = @ \cup {colony},
                !.trace = Append(@, Ev("notready", phase, colony, bestPartner, resource,
                                       amount, store(colony, resource), OK, "provide"))]

\* opts.preferDirect of the market sale
preferDirect(colony, resource) ==
    /\ resource = RESOURCE_ENERGY \/ isBaseMineral(resource)
    /\ getRemainingSpace(colony) < minColonySpace

\* The market-sell step: [S, success]
marketSell(S, colony, resource, sendAmount, opts, phase, ret) ==
    IF ~opts.allowMarketSell THEN [S |-> S, success |-> FALSE]
    ELSE [S |-> [S EXCEPT !.market = TRUE,
                          !.trace = Append(@, Ev("sell", phase, colony, "", resource,
                                                 sendAmount, 0, ret,
                                                 IF preferDirect(colony, resource)
                                                 THEN "preferDirect" ELSE "market"))],
          success |-> ret >= 0]

\* handleProvideInstance(colony, resource, sendAmount, partnerSets, opts)
handleProvideInstance(S, colony, resource, sendAmount, partnerSets, opts, phase, resp, ret) ==
    LET valid(i) == providePartners(colony, resource, sendAmount, partnerSets[i])
        hits == IF opts.allowPushToOtherRooms
                THEN {i \in DOMAIN partnerSets : Len(valid(i)) > 0}
                ELSE {}
    IN  IF hits # {}
        THEN LET first == firstHit(hits)
             IN  [S |-> provideToBest(S, colony, resource, sendAmount, valid(first), phase,
                                      resp),
                  success |-> TRUE]
        ELSE marketSell(S, colony, resource, sendAmount, opts, phase, ret)

\* ------------------------------------------------------- the loops of run()

\* The options with the passive-request phase left to the default of
\* allowMarketBuy
requestOptsBuyInEveryPhase(phase) ==
    [allowDivvying |-> FALSE,
     sendTargetPlusTolerance |-> FALSE,
     allowMarketBuy |-> world.credits > canBuyAbove,
     receiveOnlyOncePerTick |-> FALSE]

\* The options with divvying allowed in every phase
requestOptsDivvying(phase) ==
    [allowDivvying |-> TRUE,
     sendTargetPlusTolerance |-> FALSE,
     allowMarketBuy |-> IF phase = 3 THEN FALSE ELSE world.credits > canBuyAbove,
     receiveOnlyOncePerTick |-> FALSE]

\* The options of the three phases of run(), after _.defaults; the default
\* sets recieveOnlyOncePerTick, the loop reads receiveOnlyOncePerTick
requestOpts(phase) ==
    [allowDivvying |-> FALSE,
     sendTargetPlusTolerance |-> FALSE,
     allowMarketBuy |-> IF phase = 3 THEN FALSE ELSE world.credits > canBuyAbove,
     receiveOnlyOncePerTick |-> FALSE]
provideOpts == [allowPushToOtherRooms |-> TRUE, allowMarketSell |-> TRUE]

\* The partners with the equilibrium nodes among the receivers of a push
partnerSetsWithEquilibriumReceivers(phase, resource) ==
    IF phase = 1
    THEN <<listOf(activeProviders, resource), listOf(passiveProviders, resource),
           listOf(equilibriumNodes, resource), listOf(passiveRequestors, resource)>>
    ELSE IF phase = 2
    THEN <<listOf(activeRequestors, resource), listOf(passiveRequestors, resource),
           listOf(equilibriumNodes, resource)>>
    ELSE <<listOf(activeProviders, resource), listOf(passiveProviders, resource)>>

\* prioritizedPartners of a phase, picked for the resource
partnerSetsOf(phase, resource) ==
    IF phase = 1
    THEN <<listOf(activeProviders, resource), listOf(passiveProviders, resource),
           listOf(equilibriumNodes, resource), listOf(passiveRequestors, resource)>>
    ELSE IF phase = 2
    THEN <<listOf(activeRequestors, resource), listOf(passiveRequestors, resource)>>
    ELSE <<listOf(activeProviders, resource), listOf(passiveProviders, resource)>>

\* The answers the engine may give in one step: those of the sends (only the
\* first is used unless the step divvies) and that of the market
Answers(divvying) ==
    IF divvying THEN [1..MAX_SEND_REQUESTS -> SendCodes]
    ELSE {<<c, OK, OK>> : c \in SendCodes}
\* Unused answers are fixed, so that a step is taken once
answered(S, resp, ret) ==
    /\ S.legal
    /\ \A i \in DOMAIN resp : i > S.used => resp[i] = OK
    /\ ~S.market => ret = OK

visit(S, phase, colony, resource, amount, outcome) ==
    [S EXCEPT !.trace = Append(@, Ev("visit", phase, colony, "", resource, amount, 0, OK,
                                     outcome))]
\* The end of a loop iteration giving the failure notice on every tick
finishUnthrottled(R, phase, colony, resource, amount) ==
    LET S == [R.S EXCEPT !.trace = Append(@, Ev("result", phase, colony, "", resource,
                                                amount, 0, OK,
                                                IF R.success THEN "success" ELSE "failure"))]
    IN  IF ~R.success
        THEN [S EXCEPT !.notifications =
                Append(@, Note(IF phase = 2 THEN "unable-provide" ELSE "unable-request",
                               colony, "", amount, resource))]
        ELSE S

\* The end of a loop iteration: the failure notice
finish(R, phase, colony, resource, amount) ==
    LET S == [R.S EXCEPT !.trace = Append(@, Ev("result", phase, colony, "", resource,
                                                amount, 0, OK,
                                                IF R.success THEN "success" ELSE "failure"))]
    IN  IF ~R.success /\ world.time % 5 = 0
        THEN [S EXCEPT !.notifications =
                Append(@, Note(IF phase = 2 THEN "unable-provide" ELSE "unable-request",
                               colony, "", amount, resource))]
        ELSE S

\* One iteration of the loop of handleRequestors
requestIteration(opts, phase, colony, resource, resp, ret) ==
    LET th == thresholds(colony, resource)
        base == Minus(th.target, colonyAssets(colony)[resource])
        requestAmount == IF opts.sendTargetPlusTolerance THEN Plus(base, th.tolerance)
                         ELSE base
    IN  IF opts.receiveOnlyOncePerTick /\ kindOf(colony).terminal /\ hasReceived(colony)
        THEN visit(Net, phase, colony, resource, 0, "skip")
        ELSE IF LE(requestAmount, 0)
        THEN visit(Net, phase, colony, resource, requestAmount, "skip")
        ELSE finish(handleRequestInstance(
                        visit(Net, phase, colony, resource, requestAmount, "handle"),
                        colony, resource, requestAmount, partnerSetsOf(phase, resource),
                        opts, phase, resp, ret),
                    phase, colony, resource, requestAmount)

\* An iteration of handleProviders without the test of the terminal
provideIterationWithoutSkip(phase, colony, resource, resp, ret) ==
    LET sendAmount == Minus(colonyAssets(colony)[resource],
                            thresholds(colony, resource).target)
    IN  IF LE(sendAmount, 0)
        THEN visit(Net, phase, colony, resource, sendAmount, "skip")
        ELSE finish(handleProvideInstance(
                        visit(Net, phase, colony, resource, sendAmount, "handle"),
                        colony, resource, sendAmount, partnerSetsOf(phase, resource),
                        provideOpts, phase, resp, ret),
                    phase, colony, resource, sendAmount)

\* One iteration of the loop of handleProviders
provideIteration(phase, colony, resource, resp, ret) ==
    LET sendAmount == Minus(colonyAssets(colony)[resource],
                            thresholds(colony, resource).target)
    IN  IF kindOf(colony).terminal /\ ~readyIn(Net, colony)
        THEN visit(Net, phase, colony, resource, 0, "skip")
        ELSE IF LE(sendAmount, 0)
        THEN visit(Net, phase, colony, resource, sendAmount, "skip")
        ELSE finish(handleProvideInstance(
                        visit(Net, phase, colony, resource, sendAmount, "handle"),
                        colony, resource, sendAmount, partnerSetsOf(phase, resource),
                        provideOpts, phase, resp, ret),
                    phase, colony, resource, sendAmount)

\* The state after a loop iteration
step(S) ==
    /\ notifications' = S.notifications
    /\ stats' = S.stats
    /\ terminalOverload' = S.terminalOverload
    /\ termSent' = S.termSent
    /\ termReceived' = S.termReceived
    /\ trace' = S.trace
    /\ pc' = seek(buckets, pc.phase, pc.ri, pc.ci + 1)
    /\ UNCHANGED <<world, colonies, colonyThresholds, _energyThresholds, colonyStates,
                   tierVars, assets, stage, lastCall, nCalls, tick, ran, built>>

\* One iteration of handleRequestors(requestors, prioritizedPartners, opts),
\* opts after _.defaults
requestLoop(opts) ==
    /\ stage = "running"
    /\ pc.phase \in {1, 3}
    /\ \E resp \in Answers(opts.allowDivvying), ret \in MarketCodes :
        LET resource == loopResource(pc.ri)
            colony == listOf(phaseTier(buckets, pc.phase), resource)[pc.ci]
            S == requestIteration(opts, pc.phase, colony, resource, resp, ret)
        IN  answered(S, resp, ret) /\ step(S)

\* handleRequestors as run() calls it
handleRequestors == requestLoop(requestOpts(pc.phase))

\* handleRequestors called with allowDivvying: true beside what run() passes
handleRequestorsDivvying ==
    requestLoop([requestOpts(pc.phase) EXCEPT !.allowDivvying = TRUE])

\* handleProviders(providers, prioritizedPartners, opts), one iteration
handleProviders ==
    /\ stage = "running"
    /\ pc.phase = 2
    /\ \E resp \in Answers(FALSE), ret \in MarketCodes :
        LET resource == loopResource(pc.ri)
            colony == listOf(phaseTier(buckets, pc.phase), resource)[pc.ci]
            S == provideIteration(pc.phase, colony, resource, resp, ret)
        IN  answered(S, resp, ret) /\ step(S)

\* -------------------------------------------------------------- recordStats

\* exponentialMovingAverage(current, avg, window), on fixed-point numbers
exponentialMovingAverage(current, avg, window) ==
    (current + avg * (window - 1)) \div window

\* stats.states of one tier: for each colony of the tier its resources, in
\* the order of exchange
statesOf(tier) ==
    LET names == UNION {Range(tier[r]) : r \in DOMAIN tier}
    IN  [c \in names |->
            SelectSeq(RESOURCE_EXCHANGE_ORDER,
                      LAMBDA r : Has(tier, r) /\ c \in Range(tier[r]))]

\* The overload signal with its two values exchanged
overloadSignalInverted(c) == IF c \in terminalOverload THEN 0 ELSE OVERLOAD_UNIT

\* this.terminalOverload[colony.name] ? 1 : 0
overloadSignal(c) == IF c \in terminalOverload THEN OVERLOAD_UNIT ELSE 0

\* recordStats(), closing run().  The overload average of a colony that has
\* none yet is passed as undefined, which exponentialMovingAverage takes as 0.
recordStats ==
    /\ stage = "running"
    /\ pc.phase = 4
    /\ LET terminals == {c \in Range(colonies) : kindOf(c).terminal}
           keep(f) == [c \in (DOMAIN f) \cup terminals |-> entry(f, c)]
       IN  stats' = [stats EXCEPT
                !.avgCooldown = [c \in DOMAIN keep(@) |->
                    IF c \in terminals
                    THEN exponentialMovingAverage(world.cooldown[c] * COOLDOWN_UNIT,
                                                  entry(@, c),
                                                  terminalCooldownAveragingWindow)
                    ELSE @[c]],
                !.overload = [c \in DOMAIN keep(@) |->
                    IF c \in terminals
                    THEN exponentialMovingAverage(overloadSignal(c), entry(@, c),
                                                  CREEP_LIFE_TIME)
                    ELSE @[c]],
                !.states = [activeRequestors |-> statesOf(activeRequestors),
                            passiveRequestors |-> statesOf(passiveRequestors),
                            equilibriumNodes |-> statesOf(equilibriumNodes),
                            passiveProviders |-> statesOf(passiveProviders),
                            activeProviders |-> statesOf(activeProviders)]]
    /\ stage' = "done"
    /\ pc' = [phase |-> 0, ri |-> 0, ci |-> 0]
    /\ UNCHANGED <<envVars, colonies, colonyThresholds, _energyThresholds, colonyStates,
                   tierVars, assets, notifications, terminalOverload, trace, lastCall,
                   nCalls, tick, ran, built>>

\* ------------------------------------------------------------ the program

Next ==
    \/ \E colony \in ColonyNames : addColony(colony)
    \/ refresh
    \/ init
    \/ \E call \in world.requests : requestResource(call[1], call[2], call[3], call[4])
    \/ \E call \in world.exports : exportResource(call[1], call[2], call[3])
    \/ \E call \in world.queries : thresholdsCall(call[1], call[2])
    \/ run
    \/ runBeforeInit
    \/ handleRequestors
    \/ handleProviders
    \/ recordStats
    \/ NextTick

Spec == Init /\ [][Next]_vars

\* The program with its request phases allowed to divvy
NextDivvy ==
    \/ \E colony \in ColonyNames : addColony(colony)
    \/ refresh
    \/ init
    \/ \E call \in world.requests : requestResource(call[1], call[2], call[3], call[4])
    \/ \E call \in world.exports : exportResource(call[1], call[2], call[3])
    \/ \E call \in world.queries : thresholdsCall(call[1], call[2])
    \/ run
    \/ runBeforeInit
    \/ handleRequestorsDivvying
    \/ handleProviders
    \/ recordStats
    \/ NextTick

SpecDivvy == Init /\ [][NextDivvy]_vars

\* ================================================================= claims

\* The successful sends of the tick, as run() has made them so far
isSend(e) == e.ev = "send"
isOkSend(e) == e.ev = "send" /\ e.response = OK
occurrences(list, c) == Cardinality({i \in DOMAIN list : list[i] = c})
TierStates == {activeProvider, passiveProvider, equilibrium, passiveRequestor, activeRequestor}
bucketOf(state) ==
    IF state = activeProvider THEN activeProviders
    ELSE IF state = passiveProvider THEN passiveProviders
    ELSE IF state = equilibrium THEN equilibriumNodes
    ELSE IF state = passiveRequestor THEN passiveRequestors
    ELSE activeRequestors
\* A call of the operation has just returned (or raised)
called(op) == lastCall' # lastCall /\ lastCall'.op = op
\* The first step of run(): assignColonyStates
assigning == stage = "inited" /\ stage' = "running"

\* C1: in any tick no terminal performs more than one successful send, over
\* the active-request, active-provide and passive-request phases together.
C1_OneSuccessfulSendPerTick ==
    \A t \in ColonyNames :
        Cardinality({i \in DOMAIN trace : isOkSend(trace[i]) /\ trace[i].colony = t}) <= 1
\* a terminal that has sent is chosen as the sender again and held back
C1_SecondSendHeldBack ==
    \E i, j \in DOMAIN trace :
        /\ i < j
        /\ isOkSend(trace[i])
        /\ trace[j].ev = "notready"
        /\ trace[j].colony = trace[i].colony

\* C2: every amount passed to a terminal's send during run() is at most
\* MAX_SEND(resource) and at most the sender terminal's store of the resource.
C2_SendWithinLimits ==
    \A i \in DOMAIN trace :
        isSend(trace[i]) =>
            /\ trace[i].amount <= maxSend(trace[i].resource)
            /\ trace[i].amount <= trace[i].store

\* C3: after assignColonyStates every registered colony has, for every
\* resource, exactly one of the five tiers (never error), and is once in that
\* tier's bucket for the resource and in no other bucket for it.
C3_ExactlyOneTier ==
    stage \in {"running", "done"} =>
        \A c \in Range(colonies), r \in RESOURCES_ALL :
            /\ colonyStates[c][r] \in TierStates
            /\ \A s \in TierStates :
                occurrences(listOf(bucketOf(s), r), c) = IF s = colonyStates[c][r] THEN 1 ELSE 0

\* The successful sends a step has added, and what they add up to for a key
newSends == {i \in (Len(trace) + 1)..Len(trace') : isOkSend(trace'[i])}
sentFor(resource, origin, destination) ==
    LET hits == {i \in newSends : /\ trace'[i].resource = resource
                                  /\ trace'[i].colony = origin
                                  /\ trace'[i].partner = destination}
    IN  SumOver([i \in hits |-> trace'[i].amount], hits)
costFor(origin, destination) ==
    LET hits == {i \in newSends : /\ trace'[i].colony = origin
                                  /\ trace'[i].partner = destination}
    IN  SumOver([i \in hits |-> calcTransactionCost(trace'[i].amount, origin, destination)],
                hits)
C4_LedgerStep ==
    \A s \in ColonyNames, d \in ColonyNames :
        /\ entry(stats'.costs, <<s, d>>) = entry(stats.costs, <<s, d>>) + costFor(s, d)
        /\ costFor(s, d) = 0 => Has(stats'.costs, <<s, d>>) = Has(stats.costs, <<s, d>>)
        /\ \A r \in RESOURCES_ALL :
            /\ entry(stats'.transfers, <<r, s, d>>)
                    = entry(stats.transfers, <<r, s, d>>) + sentFor(r, s, d)
            /\ sentFor(r, s, d) = 0 =>
                    Has(stats'.transfers, <<r, s, d>>) = Has(stats.transfers, <<r, s, d>>)

\* C4: a successful transfer of a units of r from s to d adds exactly a to
\* transfers[r][s][d] and exactly calcTransactionCost(a, s, d) to costs[s][d],
\* and no other entry of the two ledgers changes.
C4_LedgerGrowsByTransfer == [][C4_LedgerStep]_vars
\* a successful transfer has been added to an entry an earlier one had made
C4_SecondTransferLogged ==
    \E i \in DOMAIN trace :
        /\ isOkSend(trace[i])
        /\ stats.transfers[<<trace[i].resource, trace[i].colony, trace[i].partner>>]
                > trace[i].amount
        /\ stats.costs[<<trace[i].colony, trace[i].partner>>]
                > calcTransactionCost(trace[i].amount, trace[i].colony, trace[i].partner)

\* The recorded state of (c, r) is activeRequestor
recordedRequest(c, r) ==
    Has(colonyStates, c) /\ Has(colonyStates[c], r) /\ colonyStates[c][r] = activeRequestor
visited(i, phase, c, r) ==
    /\ trace[i].ev = "visit"
    /\ trace[i].phase = phase
    /\ trace[i].colony = c
    /\ trace[i].resource = r
\* Every active requestor of r is reached in the first phase, before any
\* colony is reached in the third phase for r
requestsComeFirst ==
    \A r \in RESOURCES_ALL : \A c \in Range(listOf(activeRequestors, r)) :
        /\ \A i \in DOMAIN trace :
            (trace[i].ev = "visit" /\ trace[i].phase = 3 /\ trace[i].resource = r) =>
                \E j \in 1..(i - 1) : visited(j, 1, c, r)
        /\ stage = "done" => \E j \in DOMAIN trace : visited(j, 1, c, r)
C5_Step ==
    /\ \A c \in Range(colonies), r \in RESOURCES_ALL :
        \* the accepted call records the state
        /\ (/\ called("requestResource")
            /\ stage = "inited"
            /\ lastCall'.colony = c
            /\ lastCall'.resource = r
            /\ colonyAssets(c)[r] < lastCall'.th.target) => recordedRequest(c, r)'
        \* which stays until run()
        /\ (stage = "inited" /\ stage' = "inited" /\ recordedRequest(c, r)) =>
                recordedRequest(c, r)'
        \* and assignColonyStates keeps it, with c in that bucket only
        /\ (assigning /\ recordedRequest(c, r)) =>
            /\ colonyStates'[c][r] = activeRequestor
            /\ \A s \in TierStates :
                occurrences(listOf(bucketOf(s), r), c)' = IF s = activeRequestor THEN 1 ELSE 0
    /\ requestsComeFirst'

\* C5: after an accepted requestResource(c, r, A) between init() and run(),
\* assignColonyStates has (c, r) as activeRequestor with c in the
\* activeRequestors bucket only, and run() reaches c's request for r in its
\* first phase, before any passive requestor of r.
C5_RequestIsActiveAndFirst == [][C5_Step]_vars
\* a requested resource has been handled in phase one and a passive requestor
\* of the same resource in phase three
C5_RequestHandledBeforePassive ==
    \E r \in RESOURCES_ALL, i, j \in DOMAIN trace :
        /\ i < j
        /\ trace[i].ev = "visit" /\ trace[i].phase = 1 /\ trace[i].resource = r
        /\ trace[i].outcome = "handle"
        /\ hasOverride(trace[i].colony, r)
        /\ thresholds(trace[i].colony, r).surplus = <<>>
        /\ trace[j].ev = "visit" /\ trace[j].phase = 3 /\ trace[j].resource = r

\* C6: whenever getColonyState yields activeProvider for (c, r), then
\* amount > target + tolerance, or surplus is defined and amount > surplus.
C6_ActiveProviderHasExcess ==
    \A c \in Range(colonies), r \in RESOURCES_ALL :
        getColonyState(c, r) = activeProvider =>
            LET th == thresholds(c, r)
                amount == colonyAssets(c)[r]
            IN  \/ GT(amount, Plus(th.target, th.tolerance))
                \/ (th.surplus # <<>> /\ amount > th.surplus[1])
\* a colony is an active provider for being near full, below its surplus
C6_NearFullActiveProvider ==
    /\ stage = "running"
    /\ \E r \in RESOURCES_ALL : \E c \in Range(listOf(activeProviders, r)) :
        /\ getColonyState(c, r) = activeProvider
        /\ thresholds(c, r).surplus # <<>>
        /\ colonyAssets(c)[r] <= thresholds(c, r).surplus[1]
        /\ getRemainingSpace(c) < minColonySpace

C7_Step ==
    (/\ called("requestResource")
     /\ colonyAssets(lastCall'.colony)[lastCall'.resource] >= lastCall'.th.target) =>
        UNCHANGED <<netVars, envVars, trace, stage, pc>>

\* C7: requestResource(c, r, A) called when c.assets[r] >= A changes nothing:
\* not the threshold override or the recorded state of (c, r), nor any other
\* per-tick or persistent structure.
C7_SatisfiedRequestIsDropped == [][C7_Step]_vars
\* a request is dropped for a resource the colony has an override for
C7_RequestDropped ==
    /\ lastCall.op = "requestResource"
    /\ lastCall.outcome = "rejected"
    /\ colonyAssets(lastCall.colony)[lastCall.resource] >= lastCall.th.target
    /\ stage = "inited"
    /\ hasOverride(lastCall.colony, lastCall.resource)

\* An override call that is not dropped
accepted ==
    \/ called("exportResource")
    \/ /\ called("requestResource")
       /\ colonyAssets(lastCall'.colony)[lastCall'.resource] < lastCall'.th.target
C8_Step ==
    \A c \in ColonyNames, r \in RESOURCES_ALL :
        (/\ accepted
         /\ lastCall'.colony = c
         /\ lastCall'.resource = r
         /\ hasOverride(c, r)) => thresholds(c, r)' = lastCall'.th

\* C8: of two accepted override calls for the same (c, r) within a tick the
\* second is accepted too, and thresholds(c, r) then returns exactly the
\* thresholds the second call gave.
C8_SecondOverrideWins == [][C8_Step]_vars
\* an override has replaced another one
C8_OverrideReplaced ==
    /\ lastCall.op \in {"requestResource", "exportResource"}
    /\ lastCall.outcome = "ok"
    /\ stage = "inited"
    /\ lastCall.warned
    /\ thresholds(lastCall.colony, lastCall.resource) = lastCall.th

C9_Step ==
    /\ called("exportResource") =>
        /\ UNCHANGED <<colonies, _energyThresholds, colonyStates, tierVars, assets,
                       notifications, terminalOverload, stats, envVars>>
        /\ \A c \in ColonyNames, r \in RESOURCES_ALL :
            IF c = lastCall'.colony /\ r = lastCall'.resource
            THEN hasOverride(c, r)' /\ colonyThresholds'[c][r] = lastCall'.th
            ELSE /\ hasOverride(c, r)' = hasOverride(c, r)
                 /\ hasOverride(c, r) => colonyThresholds'[c][r] = colonyThresholds[c][r]
    /\ assigning =>
        \A c \in Range(colonies), r \in RESOURCES_ALL :
            (/\ hasOverride(c, r)
             /\ colonyThresholds[c][r] = THRESHOLDS_DONT_WANT
             /\ ~Has(colonyStates[c], r)
             /\ colonyAssets(c)[r] > 0) =>
                /\ colonyStates'[c][r] = activeProvider
                /\ occurrences(listOf(activeProviders, r), c)' = 1

\* C9: exportResource(c, r, th) sets the threshold override of (c, r) and
\* nothing else, colonyStates included; with the DONT_WANT thresholds and no
\* recorded state, assignColonyStates makes (c, r) an activeProvider whenever
\* c.assets[r] > 0.
C9_ExportSetsThresholdsOnly == [][C9_Step]_vars
\* a colony that exports with DONT_WANT has been made an active provider
C9_ExporterIsActiveProvider ==
    /\ stage = "running"
    /\ \E r \in RESOURCES_ALL : \E c \in Range(listOf(activeProviders, r)) :
        /\ hasOverride(c, r)
        /\ colonyThresholds[c][r] = THRESHOLDS_DONT_WANT
        /\ colonyStates[c][r] = activeProvider

C10_Step ==
    called("addColony") =>
        /\ IF /\ kindOf(lastCall'.colony).terminal
              /\ kindOf(lastCall'.colony).my
              /\ kindOf(lastCall'.colony).level >= 6
           THEN colonies' = Append(colonies, lastCall'.colony)
           ELSE colonies' = colonies
        /\ UNCHANGED <<colonyThresholds, _energyThresholds, colonyStates, tierVars, assets,
                       notifications, terminalOverload, stats, envVars>>

\* C10: addColony(c) appends c to the colony list if and only if c has an
\* owned terminal and level >= 6; otherwise the list and all other state are
\* unchanged.
C10_AddColonyGuard == [][C10_Step]_vars
\* a colony with an owned terminal has been turned away, another one added
C10_ColonyTurnedAway ==
    /\ lastCall.op = "addColony"
    /\ lastCall.outcome = "rejected"
    /\ kindOf(lastCall.colony).terminal
    /\ kindOf(lastCall.colony).my
    /\ Len(colonies) > 0

\* The static thresholds of the resources other than energy
staticThresholds(r) ==
    IF r = "power" THEN Thresholds(2500, <<>>, 2500) ELSE Thresholds(7000, <<45000>>, 1000)
\* An override call for (c, r) has just been accepted
overriding(c, r) == accepted /\ lastCall'.colony = c /\ lastCall'.resource = r
C11_Step ==
    \A c \in ColonyNames, r \in RESOURCES_ALL :
        \* what a query returns
        /\ (called("thresholds") /\ lastCall'.colony = c /\ lastCall'.resource = r) =>
                lastCall'.th = IF hasOverride(c, r) THEN colonyThresholds[c][r]
                               ELSE IF r = RESOURCE_ENERGY THEN _energyThresholds'[1]
                               ELSE staticThresholds(r)
        \* an override is what the last accepted call for (c, r) gave
        /\ overriding(c, r) => hasOverride(c, r)' /\ thresholds(c, r)' = lastCall'.th
        \* it stays until refresh(), which leaves none
        /\ (hasOverride(c, r) /\ ~called("refresh") /\ ~overriding(c, r)) =>
                hasOverride(c, r)' /\ thresholds(c, r)' = thresholds(c, r)
        /\ called("refresh") => ~hasOverride(c, r)'
        /\ (~hasOverride(c, r) /\ ~overriding(c, r)) => ~hasOverride(c, r)'
        \* without one the static default, or for energy the dynamic thresholds
        /\ ~hasOverride(c, r)' =>
                thresholds(c, r)' = IF r = RESOURCE_ENERGY THEN getEnergyThresholds'
                                    ELSE staticThresholds(r)
        \* an override for (c, r) is not seen for another resource of c, nor for
        \* a resource other than energy of another colony
        /\ \A d \in ColonyNames, q \in RESOURCES_ALL :
            (/\ overriding(c, r)
             /\ \/ (d = c /\ q # r)
                \/ (d # c /\ q # RESOURCE_ENERGY)) => thresholds(d, q)' = thresholds(d, q)

\* C11: thresholds(c, r) returns the override for (c, r) when one has been
\* set this tick, otherwise the dynamic energy thresholds for energy and the
\* static default for any other resource; an override for (c, r) changes
\* nothing for another resource of c or a non-energy resource of another colony.
C11_ThresholdsLookup == [][C11_Step]_vars
\* a query has returned a request's override while the other colony has the
\* static default for the resource
C11_OverrideReturned ==
    /\ lastCall.op = "thresholds"
    /\ hasOverride(lastCall.colony, lastCall.resource)
    /\ lastCall.th = colonyThresholds[lastCall.colony][lastCall.resource]
    /\ lastCall.th # staticThresholds(lastCall.resource)
    /\ \E d \in Range(colonies) :
        d # lastCall.colony /\ thresholds(d, lastCall.resource) = staticThresholds(lastCall.resource)

\* The mean of assets.energy over the registered colonies that have storage
\* and no energy override (0/0 when there is none)
energyMean ==
    LET over == {c \in Range(colonies) :
                    kindOf(c).storage /\ ~hasOverride(c, RESOURCE_ENERGY)}
    IN  IF over = {} THEN NaN
        ELSE SumOver([c \in over |-> colonyAssets(c)[RESOURCE_ENERGY]], over)
                \div Cardinality(over)

\* C12: whatever exportResource/requestResource calls and thresholds()
\* queries were made between init() and run(), the energy thresholds run()
\* uses have the mean of assets.energy over the registered colonies with
\* storage and without energy override as target, surplus 500000 and
\* tolerance target / 5.
C12_EnergyThresholdsAreTheMean ==
    (/\ stage \in {"running", "done"}
     /\ \E c \in Range(colonies) : ~hasOverride(c, RESOURCE_ENERGY)) =>
        /\ _energyThresholds # <<>>
        /\ getEnergyThresholds.target = energyMean
        /\ getEnergyThresholds.surplus = <<500000>>
        /\ getEnergyThresholds.tolerance = IF energyMean = NaN THEN NaN ELSE energyMean \div 5

\* The per-tick state is the one refresh() sets up
perTickEmpty ==
    /\ colonyThresholds = <<>>
    /\ _energyThresholds = <<>>
    /\ colonyStates = <<>>
    /\ activeProviders = <<>> /\ passiveProviders = <<>> /\ equilibriumNodes = <<>>
    /\ passiveRequestors = <<>> /\ activeRequestors = <<>>
    /\ assets = <<>>
    /\ terminalOverload = {}
    /\ notifications = <<>>
C13_Step ==
    (called("refresh") /\ lastCall.op = "refresh") =>
        /\ perTickEmpty
        /\ perTickEmpty'
        /\ UNCHANGED <<colonyThresholds, _energyThresholds, colonyStates, tierVars, assets,
                       terminalOverload, notifications>>

\* C13: refresh() called a second time, with no init, run or override since
\* the first, leaves threshold overrides, cached energy thresholds, colony
\* states, the five buckets, network assets, terminalOverload and
\* notifications as the first call left them: empty.
C13_RefreshIsIdempotent == [][C13_Step]_vars
\* refresh() has been called twice in a row after a tick's run()
C13_RefreshedTwice ==
    /\ lastCall.op = "refresh"
    /\ lastCall.again
    /\ ran
    /\ DOMAIN stats.avgCooldown # {}
    /\ perTickEmpty

\* What a step of run() has appended to the trace
newEvents == (Len(trace) + 1)..Len(trace')
\* The senders a step has to flag: those whose send failed for lack of
\* resources or on cooldown, and those found not ready
flagged ==
    {trace'[i].colony : i \in {j \in newEvents :
        \/ /\ isSend(trace'[j])
           /\ trace'[j].response \in {ERR_NOT_ENOUGH_RESOURCES, ERR_TIRED}
        \/ trace'[j].ev = "notready"}}
C14_Step == ~called("refresh") => terminalOverload' = terminalOverload \cup flagged

\* C14: a failed send flags its sender in terminalOverload if and only if
\* the code returned is ERR_NOT_ENOUGH_RESOURCES or ERR_TIRED; a send failing
\* with another code leaves terminalOverload as it was, in the single-partner
\* request path, the divvy path and the provide path alike.
C14_OverloadOnlyForTwoCodes == [][C14_Step]_vars

\* The notifications of transfers among those a step has appended
newTransferNotes ==
    {i \in (Len(notifications) + 1)..Len(notifications') :
        notifications'[i].msg \in {"request", "provide"}}
\* A send that failed is not issued again in the tick
noRetry ==
    \A i, j \in DOMAIN trace :
        (/\ i < j
         /\ isSend(trace[i]) /\ trace[i].response # OK
         /\ isSend(trace[j])) =>
            ~(/\ trace[j].colony = trace[i].colony
              /\ trace[j].partner = trace[i].partner
              /\ trace[j].resource = trace[i].resource)
C15_Step ==
    /\ (newSends = {} /\ ~called("refresh")) =>
            /\ stats'.transfers = stats.transfers
            /\ stats'.costs = stats.costs
            /\ newTransferNotes = {}
    /\ noRetry'

\* C15: a send that does not return OK changes neither the transfer ledger
\* nor the cost ledger and appends no transfer notification, and the same
\* (sender, receiver, resource) send is not issued again in that tick's run().
C15_FailedSendIsDropped == [][C15_Step]_vars

\* The step is recordStats
recording == stage = "running" /\ stage' = "done"
ledgerUnchanged == stats'.transfers = stats.transfers /\ stats'.costs = stats.costs
averagesUnchanged ==
    stats'.avgCooldown = stats.avgCooldown /\ stats'.overload = stats.overload

\* C16: the persistent ledger (transfers and costs) and the EMA tables are
\* written only inside recordStats: no step of run() before it and no other
\* public operation modifies them.
C16_WrittenOnlyInRecordStats == [][~recording => (ledgerUnchanged /\ averagesUnchanged)]_vars

C16_Step ==
    /\ ~recording => averagesUnchanged
    /\ ~ledgerUnchanged =>
        /\ stage = "running" /\ stage' = "running"
        /\ newSends # {}
    /\ recording => ledgerUnchanged
\* C16 as amended: the EMA tables are written only inside recordStats; the
\* transfer and cost ledgers are written only by a successful transfer in
\* one of the three phases of run(), and by nothing else, recordStats included.
C16_LedgerInTransferAveragesInRecordStats == [][C16_Step]_vars
\* a run() has written the ledger in a phase and the averages at its end
C16_BothWritten ==
    /\ stage = "done"
    /\ \E i \in DOMAIN trace :
        /\ isOkSend(trace[i])
        /\ Has(stats.transfers, <<trace[i].resource, trace[i].colony, trace[i].partner>>)
        /\ Has(stats.avgCooldown, trace[i].colony)
        /\ Has(stats.overload, trace[i].colony)

\* The place of a resource in RESOURCE_EXCHANGE_ORDER
orderIndex(r) == IndexOf(RESOURCE_EXCHANGE_ORDER, r)
\* The loop iterations of a phase, as places in the trace
visitsOf(phase) == {i \in DOMAIN trace : trace[i].ev = "visit" /\ trace[i].phase = phase}
\* C17: within each phase of run() the instances are processed in
\* non-decreasing RESOURCE_EXCHANGE_ORDER index, and the first resource
\* processed is the lowest-index resource whose requestor/provider list is
\* not empty.
C17_ResourcesInExchangeOrder ==
    \A phase \in 1..3 :
        /\ \A i, j \in visitsOf(phase) :
            i < j => orderIndex(trace[i].resource) <= orderIndex(trace[j].resource)
        /\ \A i \in visitsOf(phase) :
            (\A j \in visitsOf(phase) : i <= j) =>
                /\ listOf(phaseTier(buckets, phase), trace[i].resource) # <<>>
                /\ \A r \in RESOURCES_ALL :
                    orderIndex(r) < orderIndex(trace[i].resource) =>
                        listOf(phaseTier(buckets, phase), r) = <<>>
        \* no list is passed over: a later phase or the end is reached only
        \* with every instance of the phase processed
        /\ (stage = "done" \/ (stage = "running" /\ pc.phase > phase)) =>
            \A r \in RESOURCES_ALL : \A c \in Range(listOf(phaseTier(buckets, phase), r)) :
                \E i \in visitsOf(phase) : trace[i].resource = r /\ trace[i].colony = c
\* a phase has processed instances of two resources
C17_TwoResourcesInOnePhase ==
    \E phase \in 1..3 : \E i, j \in visitsOf(phase) :
        /\ i < j
        /\ orderIndex(trace[i].resource) < orderIndex(trace[j].resource)
        /\ trace[i].outcome = "handle" /\ trace[j].outcome = "handle"

\* The phase a send belongs to, told by what it is for: a request of an
\* active requestor, a push of a provider, a request of a passive requestor
sendPhase(e) ==
    IF e.outcome = "provide" THEN 2
    ELSE IF e.partner \in Range(listOf(activeRequestors, e.resource)) THEN 1
    ELSE IF e.partner \in Range(listOf(passiveRequestors, e.resource)) THEN 3
    ELSE 0
sendsInPhaseOrder ==
    \A i, j \in DOMAIN trace :
        (i < j /\ isSend(trace[i]) /\ isSend(trace[j])) =>
            /\ sendPhase(trace[i]) \in 1..3
            /\ sendPhase(trace[i]) <= sendPhase(trace[j])
C18_Step ==
    \* assignColonyStates comes first: nothing is sent before it, and the
    \* buckets stay as it made them
    /\ stage \in {"refreshed", "inited"} => trace = <<>>
    /\ stage = "running" => UNCHANGED tierVars
    /\ sendsInPhaseOrder'
    \* recordStats comes last: the averages are written when no iteration is
    \* left, and nothing is sent after it
    /\ ~averagesUnchanged => (recording /\ pc.phase = 4)
    /\ stage = "done" => (trace' = trace \/ trace' = <<>>)

\* C18: run() goes through assignColonyStates, the active-request phase, the
\* active-provide phase, the passive-request phase and recordStats in this
\* order: every send of an earlier phase precedes every send of a later one
\* and the EMA update comes after all sends.
C18_PhasesInOrder == [][C18_Step]_vars
\* a push of the active-provide phase is followed by a send of the
\* passive-request phase, and the averages are written after both
C18_ProvideThenPassiveRequest ==
    /\ stage = "done"
    /\ DOMAIN stats.avgCooldown # {}
    /\ \E i, j \in DOMAIN trace :
        /\ i < j
        /\ isSend(trace[i]) /\ sendPhase(trace[i]) = 2
        /\ isSend(trace[j]) /\ sendPhase(trace[j]) = 3

\* The instance a step has handed to its handler, if any
handledVisits == {i \in newEvents : trace'[i].ev = "visit" /\ trace'[i].outcome = "handle"}
\* The handler found a partner (and sent, or found it not ready) or the
\* market adapter returned a non-negative value
handlerSucceeded ==
    \E i \in newEvents :
        \/ trace'[i].ev \in {"send", "notready"}
        \/ trace'[i].ev \in {"buy", "sell"} /\ trace'[i].response >= 0
newFailureNotes ==
    {i \in (Len(notifications) + 1)..Len(notifications') :
        notifications'[i].msg \in {"unable-request", "unable-provide"}}
C19_Step ==
    ~called("refresh") =>
        /\ Cardinality(newFailureNotes) =
                IF handledVisits # {} /\ ~handlerSucceeded /\ world.time % 5 = 0
                THEN 1 ELSE 0
        /\ \A n \in newFailureNotes : \E i \in handledVisits :
                /\ notifications'[n].colony = trace'[i].colony
                /\ notifications'[n].resource = trace'[i].resource
                /\ notifications'[n].amount = trace'[i].amount
                /\ notifications'[n].msg =
                        IF trace'[i].phase = 2 THEN "unable-provide" ELSE "unable-request"
        \* an active requestor without supplier whose purchase is accepted
        /\ (\E i \in handledVisits, j \in newEvents :
                /\ trace'[i].phase = 1
                /\ trace'[j].ev = "buy" /\ trace'[j].response >= 0) =>
                    /\ newSends = {}
                    /\ ledgerUnchanged
                    /\ newFailureNotes = {}

\* C19: a failure notification for a request or provide instance is emitted
\* exactly when the instance handler reports failure and the tick number is a
\* multiple of 5; when an active requestor has no supplier in the network,
\* may buy and the market adapter returns a non-negative value, no transfer
\* is logged and no failure notification is emitted.
C19_FailureNoticeThrottled == [][C19_Step]_vars
\* on a tick that is a multiple of 5 one instance has failed and been
\* notified, and an active requestor's purchase has been accepted
C19_FailureNotifiedPurchaseNot ==
    /\ world.time % 5 = 0
    /\ \E i, j \in DOMAIN trace :
        /\ trace[i].ev = "buy" /\ trace[i].response >= 0 /\ trace[i].phase = 1
        /\ trace[j].ev = "result" /\ trace[j].outcome = "failure"
        /\ \E n \in DOMAIN notifications :
            /\ notifications[n].msg \in {"unable-request", "unable-provide"}
            /\ notifications[n].colony = trace[j].colony
        /\ ~\E n \in DOMAIN notifications :
            /\ notifications[n].msg = "unable-request"
            /\ notifications[n].colony = trace[i].colony
            /\ notifications[n].resource = trace[i].resource

\* new is the average of window w moved from old by the input, rounded down
\* to the unit the table is kept in
movedTo(new, old, input, w) ==
    /\ new * w <= input + old * (w - 1)
    /\ input + old * (w - 1) < (new + 1) * w
averagesInRange ==
    /\ \A c \in DOMAIN stats.overload :
            0 <= stats.overload[c] /\ stats.overload[c] <= OVERLOAD_UNIT
    /\ \A c \in DOMAIN stats.avgCooldown :
            0 <= stats.avgCooldown[c] /\ stats.avgCooldown[c] <= TERMINAL_COOLDOWN * COOLDOWN_UNIT
C20_Step ==
    /\ averagesInRange'
    /\ recording =>
        \A c \in Range(colonies) :
            kindOf(c).terminal =>
                LET flag == IF c \in terminalOverload THEN OVERLOAD_UNIT ELSE 0
                    cooldown == world.cooldown[c] * COOLDOWN_UNIT
                IN  /\ movedTo(stats'.overload[c], entry(stats.overload, c), flag, 1500)
                    /\ movedTo(stats'.avgCooldown[c], entry(stats.avgCooldown, c),
                               cooldown, 1000)
                    /\ flag = entry(stats.overload, c) =>
                            stats'.overload[c] = entry(stats.overload, c)
                    /\ cooldown = entry(stats.avgCooldown, c) =>
                            stats'.avgCooldown[c] = entry(stats.avgCooldown, c)

\* C20: for every colony with a terminal the overload EMA stays within
\* [0, 1] and the avgCooldown EMA within [0, maximum terminal cooldown];
\* recordStats feeds 1 into the overload EMA exactly when the colony was
\* flagged in terminalOverload that tick and 0 otherwise, and an EMA whose
\* input equals its current value keeps its value.
C20_AveragesBoundedAndFed == [][C20_Step]_vars
\* recordStats has left alone an overload average of 1 fed with 1 and a
\* cooldown average of 3 fed with 3, and moved another colony's averages
C20_AveragesAtTheirInput ==
    /\ stage = "done"
    /\ \E c \in Range(colonies) :
        /\ c \in terminalOverload
        /\ stats.overload[c] = OVERLOAD_UNIT
        /\ world.cooldown[c] = 3
        /\ stats.avgCooldown[c] = 3 * COOLDOWN_UNIT
    /\ \E c \in Range(colonies) :
        /\ c \notin terminalOverload
        /\ stats.overload[c] = 0

\* The tier the classification rules give for an amount and thresholds
claimedState(colony, resource) ==
    LET th == thresholds(colony, resource)
        amount == colonyAssets(colony)[resource]
        high == Plus(th.target, th.tolerance)
        low == MathMax(Minus(th.target, th.tolerance), 0)
    IN  IF \/ (th.surplus # <<>> /\ amount > th.surplus[1])
           \/ (GT(amount, high) /\ getRemainingSpace(colony) < 20000)
        THEN activeProvider
        ELSE IF GT(amount, high) THEN passiveProvider
        ELSE IF LE(low, amount) /\ LE(amount, high) THEN equilibrium
        ELSE passiveRequestor

\* C21: for every amount and every threshold triple getColonyState returns
\* activeProvider if surplus is defined and amount > surplus, or if amount >
\* target + tolerance and the remaining space is below 20000; else
\* passiveProvider if amount > target + tolerance; else equilibrium if
\* max(target - tolerance, 0) <= amount <= target + tolerance; else
\* passiveRequestor; and never activeRequestor.
C21_ClassifierFollowsTheRules ==
    \A c \in Range(colonies), r \in RESOURCES_ALL :
        /\ getColonyState(c, r) = claimedState(c, r)
        /\ getColonyState(c, r) # activeRequestor

\* A partner that can send the whole need and stay at its target, or stay
\* within the requestor's tolerance below it
strictCandidate(partner, resource, need) ==
    GE(Minus(colonyAssets(partner)[resource], need), thresholds(partner, resource).target)
relaxedCandidate(partner, resource, need, requestor) ==
    GE(Minus(colonyAssets(partner)[resource], need),
       Minus(thresholds(partner, resource).target, thresholds(requestor, resource).tolerance))
\* The sender event e of a request for need follows the order of search
searchedInOrder(e, phase, need) ==
    LET sets == partnerSetsOf(phase, e.resource)
        candidate(p) == \/ strictCandidate(p, e.resource, need)
                        \/ relaxedCandidate(p, e.resource, need, e.partner)
    IN  \E j \in DOMAIN sets :
            /\ e.colony \in Range(sets[j])
            /\ candidate(e.colony)
            /\ \A i \in 1..(j - 1) : \A p \in Range(sets[i]) : ~candidate(p)
            /\ ~strictCandidate(e.colony, e.resource, need) =>
                    \A p \in Range(sets[j]) : ~strictCandidate(p, e.resource, need)
C22_Step ==
    \A i \in handledVisits :
        trace'[i].phase \in {1, 3} =>
            LET r == trace'[i].resource
                need == trace'[i].amount
                sets == partnerSetsOf(trace'[i].phase, r)
                senders == {k \in newEvents : trace'[k].ev \in {"send", "notready"}}
            IN  /\ \A k \in senders : searchedInOrder(trace'[k], trace'[i].phase, need)
                \* a candidate in any tier is not passed over
                /\ (\E j \in DOMAIN sets : \E p \in Range(sets[j]) :
                        relaxedCandidate(p, r, need, trace'[i].colony)) => senders # {}

\* C22: in the request handler the partner tiers are searched in the given
\* priority order and, within a tier, strict candidates (assets - need >=
\* partner target) before relaxed ones (assets - need >= partner target -
\* requestor tolerance): a sender from tier P_j is chosen only if no tier P_i
\* with i < j has a strict or relaxed candidate, and a relaxed candidate only
\* if its tier has no strict candidate.
C22_TiersThenStrictThenRelaxed == [][C22_Step]_vars
\* a sender of the first tier has been chosen while the second tier had a
\* candidate, a strict candidate while a nearer one of its tier was relaxed
\* only, and a relaxed candidate of a tier without strict one
C22_EachPreferenceDecided ==
    /\ stage = "running"
    /\ \E k \in DOMAIN trace :
        /\ trace[k].ev \in {"send", "notready"} /\ trace[k].outcome = "request"
        /\ trace[k].colony \in Range(partnerSetsOf(3, trace[k].resource)[1])
        /\ \E p \in Range(partnerSetsOf(3, trace[k].resource)[2]) :
                strictCandidate(p, trace[k].resource, trace[k].amount)
    /\ \E k \in DOMAIN trace :
        /\ trace[k].ev \in {"send", "notready"} /\ trace[k].outcome = "request"
        /\ strictCandidate(trace[k].colony, trace[k].resource, trace[k].amount)
        /\ \E p \in Range(partnerSetsOf(3, trace[k].resource)[2]) :
            /\ trace[k].colony \in Range(partnerSetsOf(3, trace[k].resource)[2])
            /\ ~strictCandidate(p, trace[k].resource, trace[k].amount)
            /\ relaxedCandidate(p, trace[k].resource, trace[k].amount, trace[k].partner)
            /\ roomDistance(p, trace[k].partner)
                    < roomDistance(trace[k].colony, trace[k].partner)
    /\ \E k \in DOMAIN trace :
        /\ trace[k].ev \in {"send", "notready"} /\ trace[k].outcome = "request"
        /\ ~strictCandidate(trace[k].colony, trace[k].resource, trace[k].amount)
        /\ relaxedCandidate(trace[k].colony, trace[k].resource, trace[k].amount,
                            trace[k].partner)

C23_Step ==
    \A i \in handledVisits :
        LET c == trace'[i].colony
            r == trace'[i].resource
            need == trace'[i].amount
            sets == partnerSetsOf(trace'[i].phase, r)
            found == \E j \in DOMAIN sets : \E p \in Range(sets[j]) :
                        relaxedCandidate(p, r, need, c)
            senders == {k \in newEvents : trace'[k].ev \in {"send", "notready"}}
        IN  (trace'[i].phase \in {1, 3} /\ found) =>
                \* one sender is chosen, and it is sent from only if ready
                /\ Cardinality(senders) = 1
                /\ \A k \in senders :
                    IF isReady(trace'[k].colony)
                    THEN trace'[k].ev = "send"
                    ELSE /\ trace'[k].ev = "notready"
                         /\ terminalOverload' = terminalOverload \cup {trace'[k].colony}
                         /\ newEvents = {i, k, k + 1}
                         /\ trace'[k + 1].ev = "result" /\ trace'[k + 1].outcome = "success"
                         /\ notifications' = notifications
                         /\ ledgerUnchanged
                         /\ termSent' = termSent

\* C23: when the request handler finds a candidate sender whose terminal is
\* not ready, no send is issued for that request instance, the sender is
\* flagged in terminalOverload, and the instance counts as handled: no other
\* sender is tried, no divvy and no market buy happen for it, and no failure
\* notification is emitted.
C23_NotReadySenderEndsTheRequest == [][C23_Step]_vars
\* on a tick that is a multiple of 5, with credits to buy, an active
\* requestor's sender was not ready: it is flagged, the instance succeeded,
\* nothing was bought and nothing notified for it
C23_ActiveRequestHeldBack ==
    /\ world.time % 5 = 0
    /\ world.credits > canBuyAbove
    /\ \E k \in DOMAIN trace :
        /\ trace[k].ev = "notready" /\ trace[k].outcome = "request" /\ trace[k].phase = 1
        /\ trace[k].colony \in terminalOverload
        /\ trace[k + 1].ev = "result" /\ trace[k + 1].outcome = "success"
        /\ ~\E j \in DOMAIN trace :
            /\ trace[j].ev \in {"buy", "send"}
            /\ trace[j].resource = trace[k].resource
            /\ trace[j].phase = 1
        /\ ~\E n \in DOMAIN notifications :
            /\ notifications[n].msg = "unable-request"
            /\ notifications[n].colony = trace[k].partner

\* What a partner holds above its target
excess(partner, resource) ==
    Minus(colonyAssets(partner)[resource], thresholds(partner, resource).target)
\* The sender events of a step, and what was still needed before the k-th
\* event of a step that handles a request for need
senderEvents == {k \in newEvents : trace'[k].ev \in {"send", "notready"}}
remainingNeed(need, k) ==
    LET got == {j \in newSends : j < k}
    IN  need - SumOver([j \in got |-> trace'[j].amount], got)
\* The step divvies: it handles a request no partner can fill alone
divvying(i) ==
    /\ trace'[i].phase \in {1, 3}
    /\ \A j \in DOMAIN partnerSetsOf(trace'[i].phase, trace'[i].resource) :
        \A p \in Range(partnerSetsOf(trace'[i].phase, trace'[i].resource)[j]) :
            ~relaxedCandidate(p, trace'[i].resource, trace'[i].amount, trace'[i].colony)
drawnInOrder(r) ==
    \A k, l \in senderEvents :
        k < l => excess(trace'[k].colony, r) >= excess(trace'[l].colony, r)
drawnAmounts(r, need) ==
    \A k \in senderEvents :
        /\ remainingNeed(need, k) > 0
        /\ trace'[k].amount =
                Min(excess(trace'[k].colony, r), Min(remainingNeed(need, k), maxSend(r)))
C24_Step ==
    \A i \in handledVisits :
        divvying(i) =>
            LET r == trace'[i].resource
                need == trace'[i].amount
                sets == partnerSetsOf(trace'[i].phase, r)
                holders == {p \in UNION {Range(sets[j]) : j \in DOMAIN sets} :
                                excess(p, r) > 0}
                drawn == {trace'[k].colony : k \in senderEvents}
            IN  /\ Cardinality(senderEvents) <= 3
                /\ Cardinality(drawn) = Cardinality(senderEvents)
                /\ drawn \subseteq holders
                /\ \A p \in drawn, q \in holders \ drawn : excess(q, r) <= excess(p, r)
                /\ drawnInOrder(r)
                /\ drawnAmounts(r, need)

\* C24: with allowDivvying set and no single sufficient partner, the divvy
\* step draws from at most 3 partners, those with the largest excess (assets -
\* target) among the partners holding more than their target, in descending
\* order of excess, sending min(partnerExcess, remainingNeed, MAX_SEND) from
\* each and stopping once remainingNeed <= 0.
C24_DivvyFromLargestExcess == [][C24_Step]_vars

\* The market-buy step buys: the options allow it and the credits pass the
\* gates of the resource
buysAt(phase, resource) ==
    /\ phase = 1
    /\ world.credits > canBuyAbove
    /\ resource = RESOURCE_ENERGY => world.credits >= canBuyEnergyAbove
    /\ isBoost(resource) => world.credits >= canBuyBoostsAbove
newBuys == {k \in newEvents : trace'[k].ev = "buy"}
reported(outcome) == trace'[Len(trace')].ev = "result" /\ trace'[Len(trace')].outcome = outcome
C25_Step ==
    \A i \in handledVisits :
        divvying(i) =>
            IF newSends # {}
            THEN /\ reported("success")
                 /\ newBuys = {}
            ELSE /\ newBuys # {} <=> buysAt(trace'[i].phase, trace'[i].resource)
                 /\ \A k \in newBuys :
                        /\ trace'[k].colony = trace'[i].colony
                        /\ trace'[k].resource = trace'[i].resource
                        /\ trace'[k].amount = trace'[i].amount
                        /\ \A j \in senderEvents : j < k
                 /\ reported(IF \E k \in newBuys : trace'[k].response >= 0
                             THEN "success" ELSE "failure")

\* C25: in the divvy path, if at least one partial send succeeded the
\* request instance is reported as handled and no market buy is attempted for
\* it, even when the remaining need is still positive; if no send succeeded,
\* the handler falls through to the market-buy step.
C25_PartialSendSuppressesBuy == [][C25_Step]_vars
\* an active requestor that may buy got 3000 of the 10000 it asked for from
\* the one partner above target: the request is handled and nothing is bought
C25_PartlyServedNothingBought ==
    /\ world.credits > canBuyAbove
    /\ \E i, k \in DOMAIN trace :
        /\ trace[i].ev = "visit" /\ trace[i].outcome = "handle" /\ trace[i].phase = 1
        /\ k = i + 1
        /\ isOkSend(trace[k]) /\ trace[k].amount < trace[i].amount
        /\ ~relaxedCandidate(trace[k].colony, trace[i].resource, trace[i].amount,
                             trace[i].colony)
        /\ trace[k + 1].ev = "result" /\ trace[k + 1].outcome = "success"
        /\ ~\E j \in DOMAIN trace : trace[j].ev = "buy"

\* C26: a market buy is issued only in the active-request phase and only
\* when credits exceed canBuyAbove, and additionally credits >=
\* canBuyEnergyAbove for energy and >= canBuyBoostsAbove for boosts; no market
\* buy is ever issued on behalf of a passive requestor (third phase).
C26_BuyOnlyForActiveRequestWithCredits ==
    \A k \in DOMAIN trace :
        trace[k].ev = "buy" =>
            /\ trace[k].phase = 1
            /\ trace[k].colony \in Range(listOf(activeRequestors, trace[k].resource))
            /\ trace[k].colony \notin Range(listOf(passiveRequestors, trace[k].resource))
            /\ world.credits > canBuyAbove
            /\ trace[k].resource = "energy" => world.credits >= canBuyEnergyAbove
            /\ trace[k].resource = "XUH2O" => world.credits >= canBuyBoostsAbove
\* with credits between canBuyAbove and canBuyBoostsAbove, an active
\* requestor without supplier has been bought a mineral and refused a boost
C26_MineralBoughtBoostRefused ==
    /\ world.credits > canBuyAbove
    /\ world.credits < canBuyBoostsAbove
    /\ \E k \in DOMAIN trace :
        /\ trace[k].ev = "buy" /\ trace[k].resource = "U" /\ trace[k].phase = 1
    /\ \E i \in DOMAIN trace :
        /\ trace[i].ev = "visit" /\ trace[i].outcome = "handle" /\ trace[i].phase = 1
        /\ trace[i].resource = "XUH2O"
        /\ trace[i + 1].ev = "result" /\ trace[i + 1].outcome = "failure"

\* The step is an iteration of handleProviders for a provider whose terminal
\* is not ready
providerNotReady ==
    /\ stage = "running"
    /\ pc.phase = 2
    /\ ~isReady(listOf(activeProviders, RESOURCE_EXCHANGE_ORDER[pc.ri])[pc.ci])
C27_Step ==
    providerNotReady =>
        /\ Len(trace') = Len(trace) + 1
        /\ trace'[Len(trace')].ev = "visit"
        /\ trace'[Len(trace')].outcome = "skip"
        /\ trace'[Len(trace')].colony = listOf(activeProviders, RESOURCE_EXCHANGE_ORDER[pc.ri])[pc.ci]
        /\ trace'[Len(trace')].resource = RESOURCE_EXCHANGE_ORDER[pc.ri]
        /\ UNCHANGED <<terminalOverload, notifications, stats, termSent, termReceived>>

\* C27: an active provider whose terminal is not ready when handleProviders
\* reaches it (for example because it already sent in the active-request
\* phase of the same tick) is skipped for that resource: no push, no market
\* sell, no overload flag and no failure notification result from that
\* provide instance.
C27_NotReadyProviderIsSkipped == [][C27_Step]_vars
\* an active provider that sent to an active requestor has been passed over
\* in the provide phase of the same tick, unflagged and without a notice
C27_SentThenPassedOver ==
    \E i, j \in DOMAIN trace :
        /\ i < j
        /\ isOkSend(trace[i]) /\ trace[i].phase = 1
        /\ trace[j].ev = "visit" /\ trace[j].phase = 2 /\ trace[j].outcome = "skip"
        /\ trace[j].colony = trace[i].colony
        /\ trace[j].colony \notin terminalOverload
        /\ colonyAssets(trace[j].colony)[trace[j].resource]
                > thresholds(trace[j].colony, trace[j].resource).target
        /\ ~\E k \in DOMAIN trace :
                trace[k].ev \in {"sell", "send", "notready"} /\ trace[k].phase = 2

\* The three candidate sets of a provider's push of sendAmount within one tier
spaceLeftAfter(partner, sendAmount) == Minus(getRemainingSpace(partner), sendAmount)
preferredReceivers(provider, resource, sendAmount, tier) ==
    {p \in Range(tier) :
        /\ LE(Plus(colonyAssets(p)[resource], sendAmount), thresholds(p, resource).target)
        /\ GE(spaceLeftAfter(p, sendAmount), 20000)}
relaxedReceivers(provider, resource, sendAmount, tier) ==
    {p \in Range(tier) :
        /\ LE(Plus(colonyAssets(p)[resource], sendAmount),
              Plus(thresholds(p, resource).target, thresholds(provider, resource).tolerance))
        /\ GE(spaceLeftAfter(p, sendAmount), 20000)}
looseReceivers(provider, resource, sendAmount, tier) ==
    {p \in Range(tier) :
        /\ GE(spaceLeftAfter(p, sendAmount), 20000)
        /\ IF thresholds(p, resource).surplus # <<>>
           THEN LT(Plus(colonyAssets(p)[resource], sendAmount), thresholds(p, resource).surplus[1])
           ELSE LE(Plus(colonyAssets(p)[resource], sendAmount),
                   Plus(thresholds(p, resource).target, thresholds(p, resource).tolerance))}
firstNonEmpty(provider, resource, sendAmount, tier) ==
    IF preferredReceivers(provider, resource, sendAmount, tier) # {}
    THEN preferredReceivers(provider, resource, sendAmount, tier)
    ELSE IF relaxedReceivers(provider, resource, sendAmount, tier) # {}
    THEN relaxedReceivers(provider, resource, sendAmount, tier)
    ELSE looseReceivers(provider, resource, sendAmount, tier)
\* The receivers of the pushes of a step
receiverEvents == {k \in newEvents : trace'[k].ev \in {"send", "notready"}
                                        /\ trace'[k].outcome = "provide"}
C28_Step ==
    \A i \in handledVisits :
        trace'[i].phase = 2 =>
            LET provider == trace'[i].colony
                r == trace'[i].resource
                sendAmount == trace'[i].amount
                tiers == <<listOf(activeRequestors, r), listOf(passiveRequestors, r)>>
                valid(j) == firstNonEmpty(provider, r, sendAmount, tiers[j])
            IN  /\ \A k \in receiverEvents :
                    \E j \in DOMAIN tiers :
                        /\ trace'[k].partner \in valid(j)
                        /\ \A h \in 1..(j - 1) : valid(h) = {}
                        /\ \A q \in valid(j) :
                            /\ spaceLeftAfter(q, sendAmount) >= 20000
                            /\ calcTransactionCost(sendAmount, provider, trace'[k].partner)
                                    <= calcTransactionCost(sendAmount, provider, q)
                \* a tier with a candidate is not passed over for the market
                /\ (\E j \in DOMAIN tiers : valid(j) # {}) => receiverEvents # {}

\* C28: in the provide handler the partner tiers are searched in the order
\* activeRequestors, passiveRequestors and, within a tier, the receiver comes
\* from the first non-empty of the preferred, relaxed and loose candidate
\* sets; every candidate of any set has remainingSpace - excess >= 20000, and
\* the chosen receiver has the minimal transaction cost from the provider
\* among the candidates of that set.
C28_CheapestOfFirstNonEmptySet == [][C28_Step]_vars
\* an active provider has pushed to the nearer of two loose candidates that
\* was listed after the farther one, neither being a preferred or a relaxed
\* candidate
C28_NearerOfTwoChosen ==
    /\ stage = "running"
    /\ \E k \in DOMAIN trace :
        /\ trace[k].ev = "send" /\ trace[k].outcome = "provide" /\ trace[k].phase = 2
        /\ LET provider == trace[k].colony
               r == trace[k].resource
               sendAmount == Minus(colonyAssets(provider)[r], thresholds(provider, r).target)
               tier == listOf(passiveRequestors, r)
           IN  /\ listOf(activeRequestors, r) = <<>>
               /\ Len(tier) = 2
               /\ tier[2] = trace[k].partner
               /\ relaxedReceivers(provider, r, sendAmount, tier) = {}
               /\ looseReceivers(provider, r, sendAmount, tier) = Range(tier)
               /\ calcTransactionCost(sendAmount, provider, tier[2])
                    < calcTransactionCost(sendAmount, provider, tier[1])

\* The colonies of a bucket for a resource
inBucket(tier, resource) == Range(listOf(tier, resource))
C29_Step ==
    \A k \in newEvents :
        LET e == trace'[k]
        IN  /\ e.ev = "send" =>
                /\ e.partner \in inBucket(activeRequestors, e.resource)
                                    \cup inBucket(passiveRequestors, e.resource)
                /\ e.colony \in inBucket(equilibriumNodes, e.resource) =>
                        e.partner \in inBucket(activeRequestors, e.resource)
            /\ e.ev \in {"buy", "sell"} =>
                e.colony \notin inBucket(equilibriumNodes, e.resource)
                                    \cup inBucket(passiveProviders, e.resource)

\* C29: Equilibrium and PassiveProvider colonies never initiate: in every
\* tick the receiver of every transfer of a resource r is a colony classified
\* ActiveRequestor or PassiveRequestor for r, a colony classified Equilibrium
\* for r sends r only to an ActiveRequestor, and no market buy or sell is
\* issued on behalf of an Equilibrium or PassiveProvider colony.
C29_OnlyRequestorsAndActiveProvidersInitiate == [][C29_Step]_vars

\* a tick has ended in which an Equilibrium colony sent to an
\* ActiveRequestor, and no colony was visited or traded for in a resource it
\* is Equilibrium or PassiveProvider for, although there are such colonies
C29_EquilibriumServedAnActiveRequest ==
    /\ stage = "done"
    /\ \E k \in DOMAIN trace :
        /\ isOkSend(trace[k])
        /\ trace[k].colony \in inBucket(equilibriumNodes, trace[k].resource)
        /\ trace[k].partner \in inBucket(activeRequestors, trace[k].resource)
    /\ \E r \in RESOURCES_ALL : inBucket(passiveProviders, r) # {}
    /\ \A k \in DOMAIN trace :
        trace[k].ev \in {"visit", "buy", "sell"} =>
            trace[k].colony \notin inBucket(equilibriumNodes, trace[k].resource)
                                    \cup inBucket(passiveProviders, trace[k].resource)

C30_Step ==
    called("refresh") =>
        /\ perTickEmpty'
        /\ UNCHANGED <<stats, colonies>>

\* C30: refresh() empties every per-tick structure (threshold overrides,
\* states, buckets, assets, overload flags, notifications) and leaves the
\* persistent transfer ledger, cost ledger, EMA tables and the list of
\* registered colonies unchanged.
C30_RefreshClearsTheTickOnly == [][C30_Step]_vars
\* refresh() has just cleared a tick in which a transfer was logged and the
\* terminal averages were recorded; the ledgers, the averages and the
\* registered colonies are still there
C30_ClearedAfterALoggedTick ==
    /\ lastCall.op = "refresh"
    /\ ran
    /\ tick > 1
    /\ perTickEmpty
    /\ Len(colonies) >= 2
    /\ \E k \in DOMAIN stats.transfers : stats.transfers[k] > 0
    /\ \E k \in DOMAIN stats.costs : stats.costs[k] > 0
    /\ DOMAIN stats.avgCooldown # {}
    /\ DOMAIN stats.overload # {}

\* The requests getBestSenderColony is asked about: the amounts, and the lists
\* of one or two partners of a requestor, in either order
SenderAmounts == {10, 2000, 3000, 25000}
senderLists(colony) ==
    LET others == ColonyNames \ {colony}
    IN  {<<p>> : p \in others}
            \cup {l \in {<<p, q>> : p \in others, q \in others} : l[1] # l[2]}
\* 2000 times the score the claim gives, with the average in thousandths
claimedScore(amount, colony, partner) ==
    LET cost == calcTransactionCost(amount, partner, colony)
    IN  -1 * cost * (2 * 2000 + cost + 2 * entry(stats.avgCooldown, partner))

\* C31: getBestSenderColony returns a candidate maximizing score(p) =
\* -cost(p) * (2 + cost(p)/2000 + avgCooldown[p]); hence among candidates with
\* equal avgCooldown it returns one with minimal send cost, and among
\* candidates with equal positive send cost it returns one with minimal
\* avgCooldown.
C31_BestSenderMaximizesScore ==
    \A amount \in SenderAmounts : \A colony \in ColonyNames :
        \A partners \in senderLists(colony) :
            LET best == getBestSenderColony("U", amount, colony, partners)
                cost(p) == calcTransactionCost(amount, p, colony)
                avg(p) == entry(stats.avgCooldown, p)
            IN  /\ best \in Range(partners)
                /\ \A p \in Range(partners) :
                    /\ claimedScore(amount, colony, p) <= claimedScore(amount, colony, best)
                    /\ avg(p) = avg(best) => cost(best) <= cost(p)
                    /\ (cost(p) = cost(best) /\ cost(best) > 0) => avg(best) <= avg(p)
\* a requestor has been served by the farther of two senders that could
\* both spare the amount, the nearer one having the higher average
\* cooldown; with the averages taken as equal the nearer one is the best
C31_FartherSenderWithLessCooldown ==
    /\ stage = "running"
    /\ \E k \in DOMAIN trace :
        /\ isOkSend(trace[k]) /\ trace[k].outcome = "request"
        /\ LET e == trace[k]
               tier == listOf(passiveProviders, e.resource)
           IN  /\ Len(tier) = 2
               /\ e.colony \in Range(tier)
               /\ \A p \in Range(tier) : strictCandidate(p, e.resource, e.amount)
               /\ \E p \in Range(tier) :
                    /\ calcTransactionCost(e.amount, p, e.partner)
                        < calcTransactionCost(e.amount, e.colony, e.partner)
                    /\ entry(stats.avgCooldown, p) > entry(stats.avgCooldown, e.colony)
               /\ getBestSenderColony(e.resource, e.amount, e.partner, tier) = e.colony

\* The amounts of power or ops a colony may hold, around the thresholds
PowerAmounts == {0, 1, 2499, 2500, 5000, 5001, 6000}
\* The events that obtain a resource for a colony: its request instances,
\* the sends to it and the purchases for it
obtainsFor(e, colony, resource) ==
    /\ e.resource = resource
    /\ \/ e.ev = "visit" /\ e.phase \in {1, 3} /\ e.colony = colony
       \/ e.ev \in {"send", "notready"} /\ e.partner = colony
       \/ e.ev = "buy" /\ e.colony = colony

\* C32: under the default thresholds no colony is ever classified
\* PassiveRequestor for power or ops (target equals tolerance), and therefore
\* without a requestResource override no transfer or market buy is ever
\* initiated to obtain power or ops for a colony.
C32_PowerIsNeverRequested ==
    /\ \A th \in {THRESHOLDS_POWER, THRESHOLDS_OPS} : \A amount \in PowerAmounts :
        /\ th.target = th.tolerance
        /\ ~(amount < Max(th.target - th.tolerance, 0))
    /\ \A colony \in Range(colonies) :
        thresholds(colony, RESOURCE_POWER) = THRESHOLDS_POWER =>
            /\ getColonyState(colony, RESOURCE_POWER) # passiveRequestor
            /\ colony \notin inBucket(passiveRequestors, RESOURCE_POWER)
            /\ ~recordedRequest(colony, RESOURCE_POWER) =>
                \A k \in DOMAIN trace : ~obtainsFor(trace[k], colony, RESOURCE_POWER)
\* a tick has ended in which a colony without any power, next to one with
\* power to spare, stayed in equilibrium and got none, while another
\* resource was requested and sent
C32_NoPowerAndNoneAskedFor ==
    /\ stage = "done"
    /\ \E colony \in Range(colonies) :
        /\ colonyAssets(colony)[RESOURCE_POWER] = 0
        /\ colony \in inBucket(equilibriumNodes, RESOURCE_POWER)
        /\ inBucket(passiveProviders, RESOURCE_POWER) # {}
        /\ \A k \in DOMAIN trace : trace[k].resource # RESOURCE_POWER
        /\ \E k \in DOMAIN trace : isOkSend(trace[k]) /\ trace[k].outcome = "request"

\* The request instances of (phase, requestor, resource) in the tick, and the
\* sends terminal.send was called for on their behalf
instancesOf(phase, requestor, resource) ==
    {k \in DOMAIN trace : /\ trace[k].ev = "visit" /\ trace[k].outcome = "handle"
                          /\ trace[k].phase = phase /\ trace[k].colony = requestor
                          /\ trace[k].resource = resource}
sendAttempts(phase, requestor, resource) ==
    {k \in DOMAIN trace : /\ trace[k].ev = "send" /\ trace[k].outcome = "request"
                          /\ trace[k].phase = phase /\ trace[k].partner = requestor
                          /\ trace[k].resource = resource}

\* C33: during run() as wired (divvying is not enabled in any of the three
\* phases) each (requestor, resource) instance in a phase causes at most one
\* terminal send attempt, so a requestor for r receives at most one transfer
\* of r per request phase.
C33_OneSendPerRequestInstance ==
    \A phase \in {1, 3} : \A requestor \in ColonyNames : \A resource \in RESOURCES_ALL :
        /\ Cardinality(instancesOf(phase, requestor, resource)) <= 1
        /\ Cardinality(sendAttempts(phase, requestor, resource)) <= 1
        /\ sendAttempts(phase, requestor, resource) # {} =>
                instancesOf(phase, requestor, resource) # {}
\* a requestor that needs more than any one partner can spare, with two
\* partners that have something to spare, has had its instance and no send
C33_NoSendWhereDivvyingWouldSendTwice ==
    /\ stage = "done"
    /\ \E requestor \in ColonyNames : \E resource \in RESOURCES_ALL :
        /\ instancesOf(3, requestor, resource) # {}
        /\ sendAttempts(3, requestor, resource) = {}
        /\ Len(divvyPartners(resource, partnerSetsOf(3, resource))) >= 2
    /\ \E requestor \in ColonyNames : \E resource \in RESOURCES_ALL :
        Cardinality(sendAttempts(3, requestor, resource)) = 1

\* The transfers issued in the tick: the calls of transfer(), whatever
\* terminal.send answered
transfersIssued == {k \in DOMAIN trace : trace[k].ev = "send"}

\* C34: no transfer issued during run() has the same colony as sender and
\* receiver, and every transfer has a strictly positive amount.
C34_TransfersBetweenTwoOfSomething ==
    \A k \in transfersIssued :
        /\ trace[k].colony # trace[k].partner
        /\ GT(trace[k].amount, 0)
\* The half of it about the two ends
C34_SenderIsNotReceiver ==
    \A k \in transfersIssued : trace[k].colony # trace[k].partner

\* The transfers of the single-partner request path (the only request path
\* of run() as wired)
requestTransfers == {k \in DOMAIN trace : trace[k].ev = "send" /\ trace[k].outcome = "request"}
\* What the sender of the transfer e keeps, and the least it may keep
leftAfter(e) == Minus(colonyAssets(e.colony)[e.resource], e.amount)
senderFloor(e) ==
    Minus(thresholds(e.colony, e.resource).target, thresholds(e.partner, e.resource).tolerance)

\* C35: a sender chosen by the single-partner request path is never drawn
\* below its own target minus the requestor's tolerance: for every such
\* transfer of amount a of r from s to requestor q, s.assets[r] - a >=
\* thresholds(s, r).target - thresholds(q, r).tolerance.
C35_SenderKeepsTargetMinusTolerance ==
    \A k \in requestTransfers : GE(leftAfter(trace[k]), senderFloor(trace[k]))
\* a transfer has succeeded that leaves its sender below its target, within
\* the tolerance of the requestor
C35_SenderDrawnIntoTheTolerance ==
    /\ \E k \in requestTransfers :
        /\ isOkSend(trace[k])
        /\ thresholds(trace[k].partner, trace[k].resource).tolerance > 0
        /\ leftAfter(trace[k]) < thresholds(trace[k].colony, trace[k].resource).target
        /\ leftAfter(trace[k]) >= senderFloor(trace[k])

\* The pushes of resource that reached receiver in handleProviders this tick,
\* and their total
pushesTo(receiver, resource) ==
    {k \in DOMAIN trace : /\ isOkSend(trace[k]) /\ trace[k].outcome = "provide"
                          /\ trace[k].partner = receiver /\ trace[k].resource = resource}
totalPushed(receiver, resource) ==
    SumOver([k \in pushesTo(receiver, resource) |-> trace[k].amount],
            pushesTo(receiver, resource))

\* C36: receiving pushes never turns a colony into an ActiveProvider within a
\* tick: for every receiver d and resource r with a defined surplus,
\* d.assets[r] plus the total amount of r pushed to d by all providers during
\* handleProviders in that tick stays below thresholds(d, r).surplus, and d's
\* remaining space minus the total received stays at least 20000.
C36_PushesLeaveReceiverBelowSurplus ==
    \A d \in Range(colonies) : \A r \in RESOURCES_ALL :
        (pushesTo(d, r) # {} /\ thresholds(d, r).surplus # <<>>) =>
            /\ LT(Plus(colonyAssets(d)[r], totalPushed(d, r)), thresholds(d, r).surplus[1])
            /\ getRemainingSpace(d) - totalPushed(d, r) >= 20000
\* The same for each push alone
C36_EachPushLeavesReceiverBelowSurplus ==
    \A d \in Range(colonies) : \A r \in RESOURCES_ALL : \A k \in pushesTo(d, r) :
        thresholds(d, r).surplus # <<>> =>
            /\ LT(Plus(colonyAssets(d)[r], trace[k].amount), thresholds(d, r).surplus[1])
            /\ getRemainingSpace(d) - trace[k].amount >= 20000

\* ------------------------------------------------------------------- C37

\* A call that found the colony short of the amount it asks for
askedWhileShort ==
    /\ called("requestResource")
    /\ lastCall'.colony \in DOMAIN world.assets
    /\ colonyAssets(lastCall'.colony)[lastCall'.resource] < lastCall'.th.target
\* C37: every requestResource(c, r, A) with c.assets[r] < A completes without
\* raising and records the threshold override and the activeRequestor state of
\* (c, r), also for a colony addColony never accepted and before init(); and
\* run() completes without raising in every reachable state.
C37_Step ==
    /\ askedWhileShort =>
        \E k \in {lastCall'} :
            /\ k.outcome = "ok"
            /\ Has(colonyThresholds', k.colony)
            /\ Has(colonyThresholds'[k.colony], k.resource)
            /\ colonyThresholds'[k.colony][k.resource] = k.th
            /\ Has(colonyStates', k.colony)
            /\ Has(colonyStates'[k.colony], k.resource)
            /\ colonyStates'[k.colony][k.resource] = activeRequestor
    /\ called("run") => lastCall'.outcome = "ok"
C37_RequestsAndRunsNeverRaise == [][C37_Step]_vars

\* ------------------------------------------------------------------- C38

\* The override of (c, r) is a request for more than the colony has
requestOverride(c, r) ==
    /\ hasOverride(c, r)
    /\ colonyThresholds[c][r].surplus = <<>>
    /\ colonyThresholds[c][r].target > colonyAssets(c)[r]
\* C38: at the start of run(), every (c, r) whose recorded state is
\* activeRequestor has a request override (surplus undefined) with a target
\* above c.assets[r], whatever requestResource and exportResource calls were
\* made since init().
C38_RecordedRequestorsHaveRequestOverride ==
    stage = "inited" =>
        \A c \in DOMAIN colonyStates, r \in RESOURCES_ALL :
            recordedRequest(c, r) => requestOverride(c, r)
\* The same for a tick in which exportResource was not called after init()
C38_HoldsWithoutExports ==
    [][(stage = "inited" /\ ~called("exportResource")
        /\ \A c \in DOMAIN colonyStates, r \in RESOURCES_ALL :
               recordedRequest(c, r) => requestOverride(c, r))
       => \A c \in DOMAIN colonyStates', r \in RESOURCES_ALL :
               recordedRequest(c, r)' => requestOverride(c, r)']_vars
====
